---- MODULE Spec2Model ----
(***************************************************************************)
(* Hurna-Core maze subsystem: the Grid data structure (grid.hxx) and the   *)
(* six maze generators built on it (DFS, Kruskal's, Prim's, Recursive      *)
(* Division, Binary Tree, Sidewinder).                                     *)
(*                                                                         *)
(* A generator invocation is a record `run`: its arguments, the maze it    *)
(* owns, the per-cell CellInfo fields, the generator's local containers    *)
(* and loop counters.  Every step of a generator is an operator from a run *)
(* record and the mt() outputs it consumes to the next run record; the     *)
(* actions apply these operators to the variable `run` (and, in the        *)
(* two-invocation specification, to `run` and `run2` with the same mt()    *)
(* outputs).                                                               *)
(*                                                                         *)
(* Cells are the pairs <<x, y>> of their immutable coordinates.  A         *)
(* std::set<std::shared_ptr<Cell>> is ordered by the addresses of the Cell *)
(* objects, which the code does not control: `order` holds the cells of    *)
(* the set in the order of their addresses, and a cell that enters the set *)
(* may land at any place among the cells already there.                    *)
(***************************************************************************)
EXTENDS Integers, Sequences, FiniteSets, TLC

VARIABLES run, run2

vars == <<run, run2>>

\* ------------------------------------------------------------------ bounds
\* Widths and heights of the grids, and the number of cells they may hold
MaxW == 3
MaxH == 3
MaxCells == 9
\* The seeds of the invocations on a wide grid are 0..MaxSeed
MaxSeed == 3
\* Direct uses of a Grid: cells of the grid, calls made on it
MaxGridCells == 6
MaxOps == 2
\* Cells of the grids of two invocations compared
MaxPairCells == 6
\* Cells of a grid whose cells are given every order of addresses
MaxHeapCells == 4
\* The cells of the grids of the invocations followed to their end
MaxLiveCells == 6
\* Sorted sequences: their length and their values 0..MaxVal
MaxSeqLen == 4
MaxVal == 2

\* -------------------------------------------------------- program constants
\* u_int8_t parameters of DisconnectCol / DisconnectRow hold values modulo 256.
ByteRange == 256
\* static_cast<int>(x - 1) >= 0 holds for an unsigned x iff 1 <= x <= 2^31.
MaxInt32 == 2147483647

\* Euclid's algorithm, and the least common multiple of the positive numbers
\* of a set (1 for none)
RECURSIVE Gcd(_, _)
Gcd(a, b) == IF b = 0 THEN a ELSE Gcd(b, a % b)

RECURSIVE LcmOf(_)
LcmOf(moduli) ==
  IF moduli = {} THEN 1
  ELSE LET n == CHOOSE m \in moduli : TRUE
           rest == LcmOf(moduli \ {n})
       IN  IF n <= 0 THEN rest ELSE (n * rest) \div Gcd(n, rest)

\* std::mt19937::operator() returns any 32-bit value, and the generators use
\* an output through mt() % n only.  Two outputs that are equal modulo every
\* n of `moduli` act alike, so the outputs below the least common multiple
\* of the moduli stand for all of them.
Outputs(moduli) == 0..(LcmOf(moduli) - 1)

\* ================================================================== Grid
\* A grid is [data, conn]: data[x+1][y+1] is the cell of column x, row y
\* (std::vector<std::vector<std::shared_ptr<Cell>>> data); conn[c] is the
\* connectedCells set of cell c.
EmptyGrid == [data |-> <<>>, conn |-> [c \in {} |-> {}]]

\* Grid::Width(): data.size()
Width(g) == Len(g.data)

\* Grid::Height(): (data.size() > 0) ? data[0].size() : 0
Height(g) == IF Len(g.data) > 0 THEN Len(g.data[1]) ELSE 0

\* Grid::operator[]: (*maze)[x][y]
At(g, x, y) == g.data[x + 1][y + 1]

\* The cells the grid owns, each with its connectedCells set.
Cells(g) == DOMAIN g.conn

\* Variant of Connect that links cell to root's connected cells as well.
ConnectThrough(g, root, cell) ==
  LET c1 == [g.conn EXCEPT ![root] = @ \cup {cell}]
      c2 == [c1 EXCEPT ![cell] = @ \cup {root} \cup g.conn[root]]
  IN  [g EXCEPT !.conn = [c \in DOMAIN c2 |->
                            IF c \in g.conn[root] THEN c2[c] \cup {cell} ELSE c2[c]]]

\* Variant of Connect that removes the connection when it is already there.
ConnectOrRemove(g, root, cell) ==
  IF cell \in g.conn[root]
  THEN [g EXCEPT !.conn = [[g.conn EXCEPT ![root] = @ \ {cell}]
                              EXCEPT ![cell] = @ \ {root}]]
  ELSE [g EXCEPT !.conn = [[g.conn EXCEPT ![root] = @ \cup {cell}]
                              EXCEPT ![cell] = @ \cup {root}]]

\* Grid::Connect(root, cell)
Connect(g, root, cell) ==
  LET c1 == [g.conn EXCEPT ![root] = @ \cup {cell}]
      c2 == [c1 EXCEPT ![cell] = @ \cup {root}]
  IN  [g EXCEPT !.conn = c2]

\* Grid::Connect(cell, neighbours): the loop over the vector
RECURSIVE ConnectEach(_, _, _)
ConnectEach(g, cell, neighbours) ==
  IF neighbours = <<>> THEN g
  ELSE LET it == Head(neighbours)
           c1 == [g.conn EXCEPT ![cell] = @ \cup {it}]
           c2 == [c1 EXCEPT ![it] = @ \cup {cell}]
       IN  ConnectEach([g EXCEPT !.conn = c2], cell, Tail(neighbours))

\* Grid::Connect(cell, neighbours)
ConnectList(g, cell, neighbours) ==
  IF Len(neighbours) < 1 THEN g ELSE ConnectEach(g, cell, neighbours)

\* Variant of Disconnect without its second erase: cell keeps root in its
\* connectedCells.
DisconnectRootOnly(g, root, cell) ==
  [g EXCEPT !.conn = [g.conn EXCEPT ![root] = @ \ {cell}]]

\* Grid::Disconnect(root, cell)
Disconnect(g, root, cell) ==
  LET c1 == [g.conn EXCEPT ![root] = @ \ {cell}]
      c2 == [c1 EXCEPT ![cell] = @ \ {root}]
  IN  [g EXCEPT !.conn = c2]

\* A value converted to u_int8_t
U8(v) == v % ByteRange

\* Grid::DisconnectCol: the loop body for y; idx and pathIdx are the
\* u_int8_t parameters, already converted.
DisconnectColAt(g, origin, idx, pathIdx, y) ==
  IF y = pathIdx THEN g
  ELSE Disconnect(g, At(g, origin[1] + idx, origin[2] + y),
                     At(g, origin[1] + idx + 1, origin[2] + y))

\* Grid::DisconnectCol: the iterations y = lo, ..., hi - 1 of the loop, in
\* this order: the lower half, then the upper half on its result.  The test
\* on the lower half always holds (Disconnect keeps the cells); it makes the
\* lower half be computed before the upper half is entered.
RECURSIVE DisconnectColRange(_, _, _, _, _, _)
DisconnectColRange(g, origin, idx, pathIdx, lo, hi) ==
  IF hi <= lo THEN g
  ELSE IF hi = lo + 1 THEN DisconnectColAt(g, origin, idx, pathIdx, lo)
  ELSE LET mid == (lo + hi) \div 2
           lower == DisconnectColRange(g, origin, idx, pathIdx, lo, mid)
       IN  IF Cells(lower) = Cells(g)
           THEN DisconnectColRange(lower, origin, idx, pathIdx, mid, hi)
           ELSE lower

\* Grid::DisconnectCol(origin, idx, height, pathIdx), called with 32-bit
\* values that the u_int8_t parameters convert: for (y = 0; y < height; ++y)
DisconnectCol(g, origin, idx, height, pathIdx) ==
  DisconnectColRange(g, origin, U8(idx), U8(pathIdx), 0, U8(height))

\* Grid::DisconnectRow: the loop body for x
DisconnectRowAt(g, origin, idx, pathIdx, x) ==
  IF x = pathIdx THEN g
  ELSE Disconnect(g, At(g, origin[1] + x, origin[2] + idx),
                     At(g, origin[1] + x, origin[2] + idx + 1))

\* Grid::DisconnectRow: the iterations x = lo, ..., hi - 1 of the loop, in
\* this order: the lower half, then the upper half on its result (the test
\* always holds, as in DisconnectColRange).
RECURSIVE DisconnectRowRange(_, _, _, _, _, _)
DisconnectRowRange(g, origin, idx, pathIdx, lo, hi) ==
  IF hi <= lo THEN g
  ELSE IF hi = lo + 1 THEN DisconnectRowAt(g, origin, idx, pathIdx, lo)
  ELSE LET mid == (lo + hi) \div 2
           lower == DisconnectRowRange(g, origin, idx, pathIdx, lo, mid)
       IN  IF Cells(lower) = Cells(g)
           THEN DisconnectRowRange(lower, origin, idx, pathIdx, mid, hi)
           ELSE lower

\* Variant of Grid::DisconnectRow that walls the whole row of the grid, from
\* column 0 on, whatever the origin and the width of the region.
DisconnectRowWholeRow(g, origin, idx, width, pathIdx) ==
  DisconnectRowRange(g, <<0, origin[2]>>, U8(idx), U8(pathIdx), 0, U8(Width(g)))

\* Grid::DisconnectRow(origin, idx, width, pathIdx), called with 32-bit
\* values that the u_int8_t parameters convert: for (x = 0; x < width; ++x)
DisconnectRow(g, origin, idx, width, pathIdx) ==
  DisconnectRowRange(g, origin, U8(idx), U8(pathIdx), 0, U8(width))

\* Variant of the body of Grid::Init that connects north in the first
\* column only (the test is x == 0 where the code has y > 0 alone).
InitCellNorthInFirstColumn(g, height, isConnected, k) ==
  LET x == k \div height
      y == k % height
      pushed == [data |-> [g.data EXCEPT ![x + 1] = Append(@, <<x, y>>)],
                 conn |-> (<<x, y>> :> {}) @@ g.conn]
      west == IF isConnected /\ x > 0
              THEN Connect(pushed, At(pushed, x, y), At(pushed, x - 1, y))
              ELSE pushed
  IN  IF isConnected /\ y > 0 /\ x = 0
      THEN Connect(west, At(west, x, y), At(west, x, y - 1))
      ELSE west

\* Grid::Init: the body of the nested loops for the k-th cell, x outermost
\* (k = x * height + y): allocate the cell, connect west, connect north.
InitCell(g, height, isConnected, k) ==
  LET x == k \div height
      y == k % height
      pushed == [data |-> [g.data EXCEPT ![x + 1] = Append(@, <<x, y>>)],
                 conn |-> (<<x, y>> :> {}) @@ g.conn]
      west == IF isConnected /\ x > 0
              THEN Connect(pushed, At(pushed, x, y), At(pushed, x - 1, y))
              ELSE pushed
  IN  IF isConnected /\ y > 0
      THEN Connect(west, At(west, x, y), At(west, x, y - 1))
      ELSE west

\* Grid::Init: the iterations k = lo, ..., hi - 1 of the nested loops, in
\* this order: the lower half, then the upper half on its result (the test
\* always holds: iteration k allocates the k-th cell).
RECURSIVE InitRange(_, _, _, _, _)
InitRange(g, height, isConnected, lo, hi) ==
  IF hi <= lo THEN g
  ELSE IF hi = lo + 1 THEN InitCell(g, height, isConnected, lo)
  ELSE LET mid == (lo + hi) \div 2
           lower == InitRange(g, height, isConnected, lo, mid)
       IN  IF Cardinality(Cells(lower)) = mid
           THEN InitRange(lower, height, isConnected, mid, hi)
           ELSE lower

\* Variant of Grid::Init whose inner loop runs to y <= height.
GridInitOneRowMore(width, height, isConnected) ==
  InitRange([data |-> [x \in 1..width |-> <<>>], conn |-> [c \in {} |-> {}]],
            height + 1, isConnected, 0, width * (height + 1))

\* Grid::Grid(width, height, isConnected) -> Init: data.resize(width), then
\* the loops over the width * height cells.
GridInit(width, height, isConnected) ==
  InitRange([data |-> [x \in 1..width |-> <<>>], conn |-> [c \in {} |-> {}]],
            height, isConnected, 0, width * height)

\* ======================================================= generator invocations
Generators == {"DFS", "Kruskals", "Prims", "Division", "BinaryTree", "Sidewinder"}

\* An invocation before its first statement.  startPoint is <<x, y>>;
\* preConnected is the third argument of a direct construction of a Grid.
\* rootDistance and bucketId have no initializer: they map the cells whose
\* field has been assigned to its value, and say nothing of the others,
\* whose field holds what the allocation left there.
NewRun(gen, width, height, startPoint) ==
  [gen |-> gen, pc |-> "call", width |-> width, height |-> height,
   startPoint |-> startPoint, order |-> <<>>, preConnected |-> FALSE,
   built |-> FALSE, maze |-> EmptyGrid, result |-> "pending", nDraws |-> 0,
   isVisited |-> <<>>, rootDistance |-> <<>>, bucketId |-> <<>>,
   pathStack |-> <<>>, edges |-> <<>>, bucketCells |-> <<>>,
   pathSet |-> {}, runSet |-> {}, x |-> 0, y |-> 0, calls |-> <<>>, nOps |-> 0]

\* No invocation at all (the second invocation, where only one is made).
Idle == NewRun("none", 0, 0, <<0, 0>>)

\* return nullptr
ReturnNull(s) == [s EXCEPT !.pc = "done", !.result = "null"]

\* return maze
ReturnMaze(s) == [s EXCEPT !.pc = "done", !.result = "maze"]

\* new Maze(width, height, isConnected), with the CellInfo of every cell as
\* its constructor leaves it: isVisited false, the other fields unassigned.
Construct(s, isConnected) ==
  LET g == GridInit(s.width, s.height, isConnected)
  IN  [s EXCEPT !.built = TRUE, !.maze = g,
                !.isVisited = [c \in Cells(g) |-> FALSE],
                !.rootDistance = <<>>,
                !.bucketId = <<>>]

\* cell->info.field = v on the map f of the assigned fields
Assign(f, cell, v) ==
  [c \in DOMAIN f \cup {cell} |-> IF c = cell THEN v ELSE f[c]]

\* static_cast<int>(v - 1) >= 0 for a uint32_t v: v - 1 wraps to 2^32 - 1 at
\* v = 0 and is negative as an int from 2^31 on.
IntPredNonNeg(v) == v >= 1 /\ v - 1 <= MaxInt32

\* mt() % n for the mt() output r
RandMod(r, n) == r % n

\* The elements of a vector, as a set
Range(seq) == {seq[i] : i \in 1..Len(seq)}

\* std::set<std::shared_ptr<Cell>>::insert of the cells of `new`, none of
\* them in the set yet, into the set whose cells are `order` in the order of
\* their addresses: the cells of the set keep their order and each new cell
\* lands at any place.  The orders the set can have afterwards.
RECURSIVE Placings(_, _)
Placings(order, new) ==
  IF new = {} THEN {order}
  ELSE LET c == CHOOSE d \in new : TRUE
       IN  UNION {{SubSeq(o, 1, p) \o <<c>> \o SubSeq(o, p + 1, Len(o)) :
                     p \in 0..Len(o)} : o \in Placings(order, new \ {c})}

\* std::set::erase of a cell: the other cells keep their order
EraseCell(order, cell) == SelectSeq(order, LAMBDA c : c # cell)

\* ------------------------------------------------------------------ DFS
\* Variant of GetNeighbours that collects the neighbours in a
\* std::set<std::shared_ptr<Cell>>, as Prim's collects its frontier, and so
\* hands them out in the order of their addresses.
DFSGetNeighboursByAddress(s, cell) ==
  LET near == {c \in Cells(s.maze) :
                 /\ ~s.isVisited[c]
                 /\ \/ c[2] = cell[2] /\ (c[1] = cell[1] + 1 \/ c[1] + 1 = cell[1])
                    \/ c[1] = cell[1] /\ (c[2] = cell[2] + 1 \/ c[2] + 1 = cell[2])}
  IN  SelectSeq(s.addr, LAMBDA c : c \in near)

\* DFSGenerator::GetNeighbours: left, bottom, top, right, not visited yet
DFSGetNeighbours(s, cell) ==
  LET x == cell[1]
      y == cell[2]
      g == s.maze
      left   == IF IntPredNonNeg(x) /\ ~s.isVisited[At(g, x - 1, y)]
                THEN <<At(g, x - 1, y)>> ELSE <<>>
      bottom == IF IntPredNonNeg(y) /\ ~s.isVisited[At(g, x, y - 1)]
                THEN <<At(g, x, y - 1)>> ELSE <<>>
      top    == IF x + 1 < Width(g) /\ ~s.isVisited[At(g, x + 1, y)]
                THEN <<At(g, x + 1, y)>> ELSE <<>>
      right  == IF y + 1 < Height(g) /\ ~s.isVisited[At(g, x, y + 1)]
                THEN <<At(g, x, y + 1)>> ELSE <<>>
  IN  left \o bottom \o top \o right

\* DFSGenerator::operator(): the argument check, the construction and the
\* statements before the loop.
DFSCall(s) ==
  IF s.width < 1 \/ s.height < 1
     \/ s.startPoint[1] >= s.width \/ s.startPoint[2] >= s.height
  THEN ReturnNull(s)
  ELSE LET c == Construct(s, FALSE)
           start == At(c.maze, s.startPoint[1], s.startPoint[2])
       IN  [c EXCEPT !.pc = "loop",
                     !.rootDistance = Assign(@, start, 0),
                     !.isVisited[start] = TRUE,
                     !.pathStack = <<start>>]

\* Variant of the for loop of the DFS iteration that pushes every neighbour,
\* the chosen one included (which is then pushed a second time after it).
RECURSIVE DFSMarkAndPushAll(_, _, _, _, _)
DFSMarkAndPushAll(s, cell, neighbours, randIdx, i) ==
  IF ~(i < Len(neighbours)) THEN s
  ELSE LET n == neighbours[i + 1]
           marked == [s EXCEPT !.isVisited[n] = TRUE,
                               !.rootDistance = Assign(@, n, s.rootDistance[cell] + 1),
                               !.pathStack = Append(@, n)]
       IN  DFSMarkAndPushAll(marked, cell, neighbours, randIdx, i + 1)

\* Variant of the for loop of the DFS iteration that assigns the neighbours
\* increasing distances: the i-th gets the distance of the cell plus i + 1.
RECURSIVE DFSMarkAndPushCounting(_, _, _, _, _)
DFSMarkAndPushCounting(s, cell, neighbours, randIdx, i) ==
  IF ~(i < Len(neighbours)) THEN s
  ELSE LET n == neighbours[i + 1]
           marked == [s EXCEPT !.isVisited[n] = TRUE,
                               !.rootDistance = Assign(@, n, s.rootDistance[cell] + i + 1)]
           pushed == IF i # randIdx
                     THEN [marked EXCEPT !.pathStack = Append(@, n)]
                     ELSE marked
       IN  DFSMarkAndPushCounting(pushed, cell, neighbours, randIdx, i + 1)

\* The for loop of one iteration: mark neighbours[i] and push it unless it is
\* the chosen one.  The top of pathStack is its last element.
RECURSIVE DFSMarkAndPush(_, _, _, _, _)
DFSMarkAndPush(s, cell, neighbours, randIdx, i) ==
  IF ~(i < Len(neighbours)) THEN s
  ELSE LET n == neighbours[i + 1]
           marked == [s EXCEPT !.isVisited[n] = TRUE,
                               !.rootDistance = Assign(@, n, s.rootDistance[cell] + 1)]
           pushed == IF i # randIdx
                     THEN [marked EXCEPT !.pathStack = Append(@, n)]
                     ELSE marked
       IN  DFSMarkAndPush(pushed, cell, neighbours, randIdx, i + 1)

\* Variant of the DFS iteration that connects the cell to the chosen
\* neighbour only, while it still marks all of them.
DFSIterationConnectChosen(s, r) ==
  LET cell == s.pathStack[Len(s.pathStack)]
      popped == [s EXCEPT !.pathStack = SubSeq(@, 1, Len(@) - 1)]
      neighbours == DFSGetNeighbours(popped, cell)
  IN  IF neighbours = <<>> THEN popped
      ELSE LET randIdx == RandMod(r, Len(neighbours))
               looped == DFSMarkAndPush(popped, cell, neighbours, randIdx, 0)
           IN  [looped EXCEPT
                  !.nDraws = @ + 1,
                  !.pathStack = Append(@, neighbours[randIdx + 1]),
                  !.maze = Connect(looped.maze, cell, neighbours[randIdx + 1])]

\* Variant of the DFS iteration that pushes the chosen neighbour first and
\* the other neighbours after it.
DFSIterationChosenFirst(s, r) ==
  LET cell == s.pathStack[Len(s.pathStack)]
      popped == [s EXCEPT !.pathStack = SubSeq(@, 1, Len(@) - 1)]
      neighbours == DFSGetNeighbours(popped, cell)
  IN  IF neighbours = <<>> THEN popped
      ELSE LET randIdx == RandMod(r, Len(neighbours))
               looped == DFSMarkAndPush(popped, cell, neighbours, randIdx, 0)
               others == SubSeq(looped.pathStack, Len(popped.pathStack) + 1,
                                Len(looped.pathStack))
           IN  [looped EXCEPT
                  !.nDraws = @ + 1,
                  !.pathStack = popped.pathStack \o <<neighbours[randIdx + 1]>> \o others,
                  !.maze = ConnectList(looped.maze, cell, neighbours)]

\* One iteration of while (!pathStack.empty()); r is the mt() output, drawn
\* only when the popped cell has neighbours.
DFSIteration(s, r) ==
  LET cell == s.pathStack[Len(s.pathStack)]
      popped == [s EXCEPT !.pathStack = SubSeq(@, 1, Len(@) - 1)]
      neighbours == DFSGetNeighbours(popped, cell)
  IN  IF neighbours = <<>> THEN popped
      ELSE LET randIdx == RandMod(r, Len(neighbours))
               looped == DFSMarkAndPush(popped, cell, neighbours, randIdx, 0)
           IN  [looped EXCEPT
                  !.nDraws = @ + 1,
                  !.pathStack = Append(@, neighbours[randIdx + 1]),
                  !.maze = ConnectList(looped.maze, cell, neighbours)]

\* while (!pathStack.empty())
DFSContinues(s) == s.pathStack # <<>>

\* ------------------------------------------------------------- Kruskal's
\* Variant of Edge::operator< that compares first->x only.
EdgeLessByX(e, a) == e[1][1] < a[1][1]

\* Edge::operator<, on edges <<first, second>>
EdgeLess(e, a) == e[1][1] < a[1][1] \/ e[1][2] < a[1][2]

\* std::set<Edge>::insert(e) on the set in iteration order.  The search goes
\* left where e < node and right otherwise, and ends in front of the first
\* element e is less than; e is inserted there unless the element before
\* that place is not less than e (then e counts as already present).
SetInsert(pool, e) ==
  LET before == {i \in 1..Len(pool) : \A j \in 1..i : ~EdgeLess(e, pool[j])}
      n == Cardinality(before)
  IN  IF n > 0 /\ ~EdgeLess(pool[n], e)
      THEN pool
      ELSE SubSeq(pool, 1, n) \o <<e>> \o SubSeq(pool, n + 1, Len(pool))

\* The edges the fill loop constructs and inserts: Edge(cell, right
\* neighbour) and Edge(cell, bottom neighbour) for every cell of the grid.
FillEdges(g) ==
  {<<c, <<c[1] + 1, c[2]>>>> : c \in {d \in Cells(g) : d[1] + 1 < Width(g)}}
    \cup {<<c, <<c[1], c[2] + 1>>>> : c \in {d \in Cells(g) : d[2] + 1 < Height(g)}}

\* The fill loop of KruskalsGenerator::operator() from nodeId on, x outermost
\* (nodeId = x * Height + y).
RECURSIVE KruskalsFillFrom(_, _)
KruskalsFillFrom(s, nodeId) ==
  LET g == s.maze IN
  IF nodeId >= Width(g) * Height(g) THEN s
  ELSE LET x == nodeId \div Height(g)
           y == nodeId % Height(g)
           cell == At(g, x, y)
           right == IF x + 1 < Width(g)
                    THEN SetInsert(s.edges, <<cell, At(g, x + 1, y)>>)
                    ELSE s.edges
           bottom == IF y + 1 < Height(g)
                     THEN SetInsert(right, <<cell, At(g, x, y + 1)>>)
                     ELSE right
       IN  KruskalsFillFrom(
             [s EXCEPT !.bucketId = Assign(@, cell, nodeId),
                       !.bucketCells[nodeId + 1] = Append(@, cell),
                       !.edges = bottom],
             nodeId + 1)

\* KruskalsGenerator::operator(): the argument check, the construction and
\* the fill loop.
KruskalsCall(s) ==
  IF s.width < 1 \/ s.height < 1
  THEN ReturnNull(s)
  ELSE LET c == Construct(s, FALSE)
           sized == [c EXCEPT !.pc = "loop",
                              !.bucketCells = [i \in 1..(s.height * s.width) |-> <<>>]]
       IN  KruskalsFillFrom(sized, 0)

\* Variant of MergeBucket that moves the cells of ToId into fromId.
MergeBucketIntoFrom(s, fromId, ToId) ==
  IF fromId = ToId THEN s
  ELSE LET moved == s.bucketCells[ToId + 1]
       IN  [s EXCEPT
              !.bucketId = [c \in DOMAIN @ |->
                              IF c \in Range(moved) THEN fromId ELSE @[c]],
              !.bucketCells = [[@ EXCEPT ![fromId + 1] = @ \o moved]
                                  EXCEPT ![ToId + 1] = <<>>]]

\* Variant of MergeBucket that moves the cells without assigning them the id
\* of the bucket they move to.
MergeBucketKeepIds(s, fromId, ToId) ==
  IF fromId = ToId THEN s
  ELSE [s EXCEPT
          !.bucketCells = [[@ EXCEPT ![ToId + 1] = @ \o s.bucketCells[fromId + 1]]
                              EXCEPT ![fromId + 1] = <<>>]]

\* KruskalsGenerator::MergeBucket(buckets, fromId, ToId).  The ids are below
\* 2^32 here, so their conversion to uint32_t keeps them.
MergeBucket(s, fromId, ToId) ==
  IF fromId = ToId THEN s
  ELSE LET moved == s.bucketCells[fromId + 1]
       IN  [s EXCEPT
              !.bucketId = [c \in DOMAIN @ |->
                              IF c \in Range(moved) THEN ToId ELSE @[c]],
              !.bucketCells = [[@ EXCEPT ![ToId + 1] = @ \o moved]
                                  EXCEPT ![fromId + 1] = <<>>]]

\* One iteration of while (!edges.empty())
KruskalsIteration(s, r) ==
  LET k == RandMod(r, Len(s.edges))
      edge == s.edges[k + 1]
      firstBucket == s.bucketId[edge[1]]
      secondBucket == s.bucketId[edge[2]]
      joined == IF firstBucket # secondBucket
                THEN MergeBucket([s EXCEPT !.maze = Connect(@, edge[1], edge[2])],
                                 firstBucket, secondBucket)
                ELSE s
  IN  [joined EXCEPT !.nDraws = @ + 1,
                     !.edges = SubSeq(@, 1, k) \o SubSeq(@, k + 2, Len(@))]

\* while (!edges.empty())
KruskalsContinues(s) == s.edges # <<>>

\* ---------------------------------------------------------------- Prim's
\* PrimsGenerator::GetNeighbours: left, bottom, top, right, visited or not
PrimsGetNeighbours(s, cell, visited) ==
  LET x == cell[1]
      y == cell[2]
      g == s.maze
      Wanted(c) == IF visited THEN s.isVisited[c] ELSE ~s.isVisited[c]
      left   == IF IntPredNonNeg(x) /\ Wanted(At(g, x - 1, y))
                THEN <<At(g, x - 1, y)>> ELSE <<>>
      bottom == IF IntPredNonNeg(y) /\ Wanted(At(g, x, y - 1))
                THEN <<At(g, x, y - 1)>> ELSE <<>>
      top    == IF x + 1 < Width(g) /\ Wanted(At(g, x + 1, y))
                THEN <<At(g, x + 1, y)>> ELSE <<>>
      right  == IF y + 1 < Height(g) /\ Wanted(At(g, x, y + 1))
                THEN <<At(g, x, y + 1)>> ELSE <<>>
  IN  left \o bottom \o top \o right

\* Variant of PrimsGenerator::operator() that marks the start cell visited
\* before the loop, as the DFS generator does.
PrimsCallStartVisited(s) ==
  IF s.width < 1 \/ s.height < 1
     \/ s.startPoint[1] >= s.width \/ s.startPoint[2] >= s.height
  THEN ReturnNull(s)
  ELSE LET c == Construct(s, FALSE)
           start == At(c.maze, s.startPoint[1], s.startPoint[2])
       IN  [c EXCEPT !.pc = "loop",
                     !.rootDistance = Assign(@, start, 0),
                     !.isVisited[start] = TRUE,
                     !.pathSet = {start},
                     !.order = <<start>>]

\* PrimsGenerator::operator(): the argument check, the construction and the
\* statements before the loop.
PrimsCall(s) ==
  IF s.width < 1 \/ s.height < 1
     \/ s.startPoint[1] >= s.width \/ s.startPoint[2] >= s.height
  THEN ReturnNull(s)
  ELSE LET c == Construct(s, FALSE)
           start == At(c.maze, s.startPoint[1], s.startPoint[2])
       IN  [c EXCEPT !.pc = "loop",
                     !.rootDistance = Assign(@, start, 0),
                     !.pathSet = {start},
                     !.order = <<start>>]

\* std::advance(cellIt, mt() % pathSet.size()) from pathSet.begin(): the cell
\* of pathSet with that many cells of pathSet at lower addresses
PrimsPicked(s, r1) == s.order[RandMod(r1, Cardinality(s.pathSet)) + 1]

\* The orders pathSet can have after pathSet.insert(neighbours.begin(),
\* neighbours.end()) in the iteration that picks with r1: the unvisited
\* neighbours of the picked cell that are not in pathSet yet land anywhere.
PrimsPlacings(s, r1) ==
  LET cell == PrimsPicked(s, r1)
      seen == [s EXCEPT !.isVisited[cell] = TRUE]
  IN  Placings(s.order, Range(PrimsGetNeighbours(seen, cell, FALSE)) \ s.pathSet)

\* Variant of the Prim's iteration that connects the cell to every visited
\* neighbour.
PrimsIterationConnectAll(s, r1, r2, o) ==
  LET cell == PrimsPicked(s, r1)
      seen == [s EXCEPT !.isVisited[cell] = TRUE, !.nDraws = @ + 1]
      neighbours == PrimsGetNeighbours(seen, cell, TRUE)
      linked == IF neighbours # <<>>
                THEN [seen EXCEPT !.nDraws = @ + 1,
                                  !.maze = ConnectList(@, cell, neighbours)]
                ELSE seen
      available == PrimsGetNeighbours(linked, cell, FALSE)
  IN  [linked EXCEPT !.pathSet = (@ \cup Range(available)) \ {cell},
                     !.order = EraseCell(o, cell)]

\* One iteration of while (!pathSet.empty()); r1 picks the cell, r2 (drawn
\* only when a neighbour is already visited) the neighbour to connect to, and
\* o is the order of pathSet once the available neighbours are inserted.
PrimsIteration(s, r1, r2, o) ==
  LET cell == PrimsPicked(s, r1)
      seen == [s EXCEPT !.isVisited[cell] = TRUE, !.nDraws = @ + 1]
      neighbours == PrimsGetNeighbours(seen, cell, TRUE)
      linked == IF neighbours # <<>>
                THEN LET randIdx == RandMod(r2, Len(neighbours))
                         n == neighbours[randIdx + 1]
                     IN  [seen EXCEPT
                            !.nDraws = @ + 1,
                            !.rootDistance = Assign(@, cell, seen.rootDistance[n] + 1),
                            !.maze = Connect(@, cell, n)]
                ELSE seen
      available == PrimsGetNeighbours(linked, cell, FALSE)
  IN  [linked EXCEPT !.pathSet = (@ \cup Range(available)) \ {cell},
                     !.order = EraseCell(o, cell)]

\* while (!pathSet.empty())
PrimsContinues(s) == s.pathSet # {}

\* ------------------------------------------------------ Recursive Division
\* A pending call Compute(mt, maze, origin, width, height).  `calls` holds
\* the calls still to run, the next one last.
ComputeCall(origin, width, height) ==
  [origin |-> origin, width |-> width, height |-> height]

\* RecursiveDivisionGenerator::operator(): the argument check, the
\* construction of the connected grid and the first call of Compute.
DivisionCall(s) ==
  IF s.width < 1 \/ s.height < 1
  THEN ReturnNull(s)
  ELSE [Construct(s, TRUE) EXCEPT
          !.pc = "loop",
          !.calls = <<ComputeCall(<<0, 0>>, s.width, s.height)>>]

\* RecursiveDivisionGenerator::Compute: the body of the next pending call.
\* Its two recursive calls become pending, the first of them next.  r1, r2
\* and r3 are the three mt() outputs, drawn only when the region is cut.
DivisionCompute(s, r1, r2, r3) ==
  LET call == s.calls[Len(s.calls)]
      origin == call.origin
      width == call.width
      height == call.height
      entered == [s EXCEPT !.calls = SubSeq(@, 1, Len(@) - 1)]
  IN  IF width < 2 \/ height < 2 THEN entered
      ELSE LET isHorizontalCut == (RandMod(r1, 2) = 0)
               wallIdx == IF isHorizontalCut THEN RandMod(r2, height - 1)
                                             ELSE RandMod(r2, width - 1)
               pathIdx == IF isHorizontalCut THEN RandMod(r3, width)
                                             ELSE RandMod(r3, height)
           IN  IF isHorizontalCut
               THEN [entered EXCEPT
                       !.nDraws = @ + 3,
                       !.maze = DisconnectRow(@, origin, wallIdx, width, pathIdx),
                       !.calls = @ \o
                         <<ComputeCall(<<origin[1], origin[2] + wallIdx + 1>>,
                                       width, height - wallIdx - 1),
                           ComputeCall(origin, width, wallIdx + 1)>>]
               ELSE [entered EXCEPT
                       !.nDraws = @ + 3,
                       !.maze = DisconnectCol(@, origin, wallIdx, height, pathIdx),
                       !.calls = @ \o
                         <<ComputeCall(<<origin[1] + wallIdx + 1, origin[2]>>,
                                       width - wallIdx - 1, height),
                           ComputeCall(origin, wallIdx + 1, height)>>]

\* Calls of Compute are still pending.
DivisionContinues(s) == s.calls # <<>>

\* ------------------------------------------------------------ Binary Tree
\* Variant of BinaryTreeGenerator::GetNeighbours that offers west only.
BinaryTreeGetNeighboursWest(s, cell) ==
  IF cell[1] > 0 THEN <<At(s.maze, cell[1] - 1, cell[2])>> ELSE <<>>

\* Variant of BinaryTreeGenerator::GetNeighbours that takes the north
\* neighbour in column 0 whatever the column of the cell.
BinaryTreeGetNeighboursNorthOfColumn0(s, cell) ==
  LET x == cell[1]
      y == cell[2]
      west  == IF x > 0 THEN <<At(s.maze, x - 1, y)>> ELSE <<>>
      north == IF y > 0 THEN <<At(s.maze, 0, y - 1)>> ELSE <<>>
  IN  west \o north

\* BinaryTreeGenerator::GetNeighbours: west, then north
BinaryTreeGetNeighbours(s, cell) ==
  LET x == cell[1]
      y == cell[2]
      west  == IF x > 0 THEN <<At(s.maze, x - 1, y)>> ELSE <<>>
      north == IF y > 0 THEN <<At(s.maze, x, y - 1)>> ELSE <<>>
  IN  west \o north

\* ++x of the inner loop and, at the end of a row, ++y of the outer one
NextInRow(s) ==
  IF s.x + 1 < s.width
  THEN [s EXCEPT !.x = @ + 1]
  ELSE [s EXCEPT !.x = 0, !.y = @ + 1]

\* for (y < height): cells are left to scan
ScanContinues(s) == s.y < s.height

\* Variant of BinaryTreeGenerator::operator() that checks the width only.
BinaryTreeCallWidthOnly(s) ==
  IF s.width < 1
  THEN ReturnNull(s)
  ELSE [Construct(s, FALSE) EXCEPT !.pc = "loop", !.x = 0, !.y = 0]

\* BinaryTreeGenerator::operator(): the argument check and the construction
BinaryTreeCall(s) ==
  IF s.width < 1 \/ s.height < 1
  THEN ReturnNull(s)
  ELSE [Construct(s, FALSE) EXCEPT !.pc = "loop", !.x = 0, !.y = 0]

\* Variant of the Binary Tree loop body that connects the cell to all of its
\* west and north neighbours.
BinaryTreeIterationConnectAll(s, r) ==
  LET cell == At(s.maze, s.x, s.y)
      curNeighbours == BinaryTreeGetNeighbours(s, cell)
  IN  IF curNeighbours = <<>> THEN NextInRow(s)
      ELSE NextInRow([s EXCEPT
                        !.nDraws = @ + 1,
                        !.maze = ConnectList(@, cell, curNeighbours)])

\* BinaryTreeGenerator::operator(): the loop body for the cell (x, y)
BinaryTreeIteration(s, r) ==
  LET cell == At(s.maze, s.x, s.y)
      curNeighbours == BinaryTreeGetNeighbours(s, cell)
  IN  IF curNeighbours = <<>> THEN NextInRow(s)
      ELSE LET randIdx == RandMod(r, Len(curNeighbours))
           IN  NextInRow([s EXCEPT
                            !.nDraws = @ + 1,
                            !.maze = Connect(@, cell, curNeighbours[randIdx + 1])])

\* ------------------------------------------------------------- Sidewinder
\* SidewinderGenerator::operator(): the argument check and the construction
SidewinderCall(s) ==
  IF s.width < 1 \/ s.height < 1
  THEN ReturnNull(s)
  ELSE [Construct(s, FALSE) EXCEPT !.pc = "loop", !.x = 0, !.y = 0, !.runSet = {}]

\* The orders runSet can have after runSet.insert((*maze)[x][y]), which the
\* loop body makes below the first row: the cell lands anywhere.
SidewinderPlacings(s) ==
  IF s.y > 0 THEN Placings(s.order, {At(s.maze, s.x, s.y)} \ s.runSet)
  ELSE {s.order}

\* Variant of the Sidewinder loop body that does not force the first row
\* east: the test is mt() % 2 == 0 alone.
SidewinderIterationNoFirstRow(s, r1, r2, o) ==
  LET g == s.maze
      x == s.x
      y == s.y
      added == IF y > 0
               THEN [s EXCEPT !.runSet = @ \cup {At(g, x, y)}, !.order = o]
               ELSE s
      tested == IF x + 1 < s.width THEN [added EXCEPT !.nDraws = @ + 1] ELSE added
      rNorth == IF x + 1 < s.width THEN r2 ELSE r1
      carved ==
        IF x + 1 < s.width /\ RandMod(r1, 2) = 0
        THEN [tested EXCEPT !.maze = Connect(@, At(g, x, y), At(g, x + 1, y))]
        ELSE IF y > 0
             THEN LET cellIt == tested.order[RandMod(rNorth, Cardinality(tested.runSet)) + 1]
                  IN  [tested EXCEPT
                         !.nDraws = @ + 1,
                         !.maze = Connect(@, cellIt, At(g, cellIt[1], cellIt[2] - 1)),
                         !.runSet = {},
                         !.order = <<>>]
             ELSE tested
      stepped == NextInRow(carved)
  IN  IF stepped.y # y THEN [stepped EXCEPT !.runSet = {}, !.order = <<>>] ELSE stepped

\* Variant of the Sidewinder loop body that keeps the run set after it has
\* carved north.
SidewinderIterationKeepRun(s, r1, r2, o) ==
  LET g == s.maze
      x == s.x
      y == s.y
      added == IF y > 0
               THEN [s EXCEPT !.runSet = @ \cup {At(g, x, y)}, !.order = o]
               ELSE s
      tested == IF x + 1 < s.width THEN [added EXCEPT !.nDraws = @ + 1] ELSE added
      rNorth == IF x + 1 < s.width THEN r2 ELSE r1
      carved ==
        IF x + 1 < s.width /\ (RandMod(r1, 2) = 0 \/ y = 0)
        THEN [tested EXCEPT !.maze = Connect(@, At(g, x, y), At(g, x + 1, y))]
        ELSE IF y > 0
             THEN LET cellIt == tested.order[RandMod(rNorth, Cardinality(tested.runSet)) + 1]
                  IN  [tested EXCEPT
                         !.nDraws = @ + 1,
                         !.maze = Connect(@, cellIt, At(g, cellIt[1], cellIt[2] - 1))]
             ELSE tested
      stepped == NextInRow(carved)
  IN  IF stepped.y # y THEN [stepped EXCEPT !.runSet = {}, !.order = <<>>] ELSE stepped

\* SidewinderGenerator::operator(): the loop body for the cell (x, y).  r1
\* and r2 are the next mt() outputs: the east-or-north test draws one when
\* x + 1 < width, and the choice of the cell carved north draws the next.  o
\* is the order of runSet once the cell is inserted.
SidewinderIteration(s, r1, r2, o) ==
  LET g == s.maze
      x == s.x
      y == s.y
      added == IF y > 0
               THEN [s EXCEPT !.runSet = @ \cup {At(g, x, y)}, !.order = o]
               ELSE s
      tested == IF x + 1 < s.width THEN [added EXCEPT !.nDraws = @ + 1] ELSE added
      rNorth == IF x + 1 < s.width THEN r2 ELSE r1
      carved ==
        IF x + 1 < s.width /\ (RandMod(r1, 2) = 0 \/ y = 0)
        THEN [tested EXCEPT !.maze = Connect(@, At(g, x, y), At(g, x + 1, y))]
        ELSE IF y > 0
             THEN LET cellIt == tested.order[RandMod(rNorth, Cardinality(tested.runSet)) + 1]
                  IN  [tested EXCEPT
                         !.nDraws = @ + 1,
                         !.maze = Connect(@, cellIt, At(g, cellIt[1], cellIt[2] - 1)),
                         !.runSet = {},
                         !.order = <<>>]
             ELSE tested
      stepped == NextInRow(carved)
  IN  IF stepped.y # y THEN [stepped EXCEPT !.runSet = {}, !.order = <<>>] ELSE stepped

\* ------------------------------------------------- direct use of a Grid
\* A caller that constructs Grid(width, height, preConnected) and then calls
\* its operations.
GridRun(width, height, preConnected) ==
  [NewRun("Grid", width, height, <<0, 0>>) EXCEPT !.preConnected = preConnected]

\* Grid(width, height, isConnected)
GridCall(s) == [Construct(s, s.preConnected) EXCEPT !.pc = "api"]

\* The vectors of neighbours passed to Connect(cell, neighbours)
NeighbourLists(g) ==
  {<<>>} \cup {<<a>> : a \in Cells(g)} \cup {<<a, b>> : a \in Cells(g), b \in Cells(g)}

\* The sub-regions [origin, width, height] of the grid
Regions(g) ==
  {ComputeCall(<<ox, oy>>, w, h) :
     ox \in 0..(Width(g) - 1), oy \in 0..(Height(g) - 1),
     w \in 1..Width(g), h \in 1..Height(g)}

RegionsOf(g) ==
  {rg \in Regions(g) : /\ rg.origin[1] + rg.width <= Width(g)
                       /\ rg.origin[2] + rg.height <= Height(g)}

\* ================================================== one generator invocation
\* The arguments of the invocations explored: every width and height up to
\* the bounds (0 included), every start point up to the bounds (those outside
\* the grid included) for the generators that take one.
Points == (0..MaxW) \X (0..MaxH)

TakesStartPoint(gen) == gen \in {"DFS", "Prims"}

Sizes == {wh \in (0..MaxW) \X (0..MaxH) : wh[1] * wh[2] <= MaxCells}

Invocations ==
  UNION {{NewRun(gen, wh[1], wh[2], sp) : gen \in Generators, sp \in Points} :
         wh \in Sizes}

Init ==
  /\ run \in {s \in Invocations :
                TakesStartPoint(s.gen) \/ s.startPoint = <<0, 0>>}
  /\ run2 = Idle

\* The statements of operator() up to its loop, by generator
Call(s) ==
  CASE s.gen = "DFS" -> DFSCall(s)
    [] s.gen = "Kruskals" -> KruskalsCall(s)
    [] s.gen = "Prims" -> PrimsCall(s)
    [] s.gen = "Division" -> DivisionCall(s)
    [] s.gen = "BinaryTree" -> BinaryTreeCall(s)
    [] s.gen = "Sidewinder" -> SidewinderCall(s)
    [] s.gen = "Grid" -> GridCall(s)

\* The loop condition, by generator
Continues(s) ==
  CASE s.gen = "DFS" -> DFSContinues(s)
    [] s.gen = "Kruskals" -> KruskalsContinues(s)
    [] s.gen = "Prims" -> PrimsContinues(s)
    [] s.gen = "Division" -> DivisionContinues(s)
    [] s.gen = "BinaryTree" -> ScanContinues(s)
    [] s.gen = "Sidewinder" -> ScanContinues(s)

\* One loop iteration (one call of Compute), by generator, with the next
\* mt() outputs r1, r2, r3, of which it uses as many as it draws, and the
\* order o of its std::set of cells after the insertion, if it has one.
Iteration(s, r1, r2, r3, o) ==
  CASE s.gen = "DFS" -> DFSIteration(s, r1)
    [] s.gen = "Kruskals" -> KruskalsIteration(s, r1)
    [] s.gen = "Prims" -> PrimsIteration(s, r1, r2, o)
    [] s.gen = "Division" -> DivisionCompute(s, r1, r2, r3)
    [] s.gen = "BinaryTree" -> BinaryTreeIteration(s, r1)
    [] s.gen = "Sidewinder" -> SidewinderIteration(s, r1, r2, o)

\* The orders the std::set of cells of the iteration can have after its
\* insertion, by generator; four generators have no such set.
IterationPlacings(s, r1) ==
  CASE s.gen = "Prims" -> PrimsPlacings(s, r1)
    [] s.gen = "Sidewinder" -> SidewinderPlacings(s)
    [] OTHER -> {s.order}

\* The n of the mt() % n the next iteration computes with its first output,
\* by generator (none where it draws no output).
FirstModuli(s) ==
  CASE s.gen = "DFS" ->
         {Len(DFSGetNeighbours(s, s.pathStack[Len(s.pathStack)]))}
    [] s.gen = "Kruskals" -> {Len(s.edges)}
    [] s.gen = "Prims" -> {Cardinality(s.pathSet)}
    [] s.gen = "Division" ->
         LET call == s.calls[Len(s.calls)]
         IN  IF call.width < 2 \/ call.height < 2 THEN {} ELSE {2}
    [] s.gen = "BinaryTree" ->
         {Len(BinaryTreeGetNeighbours(s, At(s.maze, s.x, s.y)))}
    [] s.gen = "Sidewinder" ->
         IF s.x + 1 < s.width THEN {2}
         ELSE IF s.y > 0
              THEN {Cardinality(s.runSet \cup {At(s.maze, s.x, s.y)})}
              ELSE {}
    [] OTHER -> {}

\* The n of the mt() % n computed with the second output, after r1
SecondModuli(s, r1) ==
  CASE s.gen = "Prims" ->
         LET cell == PrimsPicked(s, r1)
             seen == [s EXCEPT !.isVisited[cell] = TRUE]
         IN  {Len(PrimsGetNeighbours(seen, cell, TRUE))}
    [] s.gen = "Division" ->
         LET call == s.calls[Len(s.calls)]
         IN  IF call.width < 2 \/ call.height < 2 THEN {}
             ELSE IF RandMod(r1, 2) = 0 THEN {call.height - 1}
                                        ELSE {call.width - 1}
    [] s.gen = "Sidewinder" ->
         IF s.x + 1 < s.width /\ s.y > 0 /\ RandMod(r1, 2) # 0
         THEN {Cardinality(s.runSet \cup {At(s.maze, s.x, s.y)})}
         ELSE {}
    [] OTHER -> {}

\* The n of the mt() % n computed with the third output, after r1
ThirdModuli(s, r1) ==
  CASE s.gen = "Division" ->
         LET call == s.calls[Len(s.calls)]
         IN  IF call.width < 2 \/ call.height < 2 THEN {}
             ELSE IF RandMod(r1, 2) = 0 THEN {call.width} ELSE {call.height}
    [] OTHER -> {}

Invoke ==
  /\ run.pc = "call"
  /\ run' = Call(run)
  /\ UNCHANGED run2

DFSStep ==
  /\ run.gen = "DFS" /\ run.pc = "loop" /\ DFSContinues(run)
  /\ \E r \in Outputs(FirstModuli(run)) : run' = DFSIteration(run, r)
  /\ UNCHANGED run2

KruskalsStep ==
  /\ run.gen = "Kruskals" /\ run.pc = "loop" /\ KruskalsContinues(run)
  /\ \E r \in Outputs(FirstModuli(run)) : run' = KruskalsIteration(run, r)
  /\ UNCHANGED run2

PrimsStep ==
  /\ run.gen = "Prims" /\ run.pc = "loop" /\ PrimsContinues(run)
  /\ \E r1 \in Outputs(FirstModuli(run)) :
       \E r2 \in Outputs(SecondModuli(run, r1)) :
         \E o \in PrimsPlacings(run, r1) : run' = PrimsIteration(run, r1, r2, o)
  /\ UNCHANGED run2

DivisionStep ==
  /\ run.gen = "Division" /\ run.pc = "loop" /\ DivisionContinues(run)
  /\ \E r1 \in Outputs(FirstModuli(run)) :
       \E r2 \in Outputs(SecondModuli(run, r1)) :
         \E r3 \in Outputs(ThirdModuli(run, r1)) :
           run' = DivisionCompute(run, r1, r2, r3)
  /\ UNCHANGED run2

BinaryTreeStep ==
  /\ run.gen = "BinaryTree" /\ run.pc = "loop" /\ ScanContinues(run)
  /\ \E r \in Outputs(FirstModuli(run)) : run' = BinaryTreeIteration(run, r)
  /\ UNCHANGED run2

SidewinderStep ==
  /\ run.gen = "Sidewinder" /\ run.pc = "loop" /\ ScanContinues(run)
  /\ \E r1 \in Outputs(FirstModuli(run)) :
       \E r2 \in Outputs(SecondModuli(run, r1)) :
         \E o \in SidewinderPlacings(run) :
           run' = SidewinderIteration(run, r1, r2, o)
  /\ UNCHANGED run2

\* One more call on the grid of a direct use
Used(s, g) == [s EXCEPT !.maze = g, !.nOps = @ + 1]

GridConnect ==
  /\ run.pc = "api" /\ run.nOps < MaxOps
  /\ \E a, b \in Cells(run.maze) : run' = Used(run, Connect(run.maze, a, b))
  /\ UNCHANGED run2

GridConnectList ==
  /\ run.pc = "api" /\ run.nOps < MaxOps
  /\ \E a \in Cells(run.maze), ns \in NeighbourLists(run.maze) :
       run' = Used(run, ConnectList(run.maze, a, ns))
  /\ UNCHANGED run2

GridDisconnect ==
  /\ run.pc = "api" /\ run.nOps < MaxOps
  /\ \E a, b \in Cells(run.maze) : run' = Used(run, Disconnect(run.maze, a, b))
  /\ UNCHANGED run2

\* DisconnectRow within its preconditions: a wall under row idx of a region
\* of the grid, idx + 1 a row of the region, the gap within the wall.
GridDisconnectRow ==
  /\ run.pc = "api" /\ run.nOps < MaxOps
  /\ \E rg \in RegionsOf(run.maze) :
       \E idx \in 0..(rg.height - 2), pathIdx \in 0..(rg.width - 1) :
         run' = Used(run, DisconnectRow(run.maze, rg.origin, idx, rg.width, pathIdx))
  /\ UNCHANGED run2

\* DisconnectCol within its preconditions
GridDisconnectCol ==
  /\ run.pc = "api" /\ run.nOps < MaxOps
  /\ \E rg \in RegionsOf(run.maze) :
       \E idx \in 0..(rg.width - 2), pathIdx \in 0..(rg.height - 1) :
         run' = Used(run, DisconnectCol(run.maze, rg.origin, idx, rg.height, pathIdx))
  /\ UNCHANGED run2

\* The loop is over: return maze
Return ==
  /\ run.gen \in Generators /\ run.pc = "loop" /\ ~Continues(run)
  /\ run' = ReturnMaze(run)
  /\ UNCHANGED run2

Next ==
  \/ Invoke
  \/ DFSStep
  \/ KruskalsStep
  \/ PrimsStep
  \/ DivisionStep
  \/ BinaryTreeStep
  \/ SidewinderStep
  \/ Return

Spec == Init /\ [][Next]_vars

\* ============================== one generator invocation that runs to its end
\* The steps of the loops and the return that follows them
LoopSteps ==
  \/ DFSStep
  \/ KruskalsStep
  \/ PrimsStep
  \/ DivisionStep
  \/ BinaryTreeStep
  \/ SidewinderStep
  \/ Return

\* The invocations followed to their end: those of Init on grids of up to
\* MaxLiveCells cells
InitLive ==
  /\ Init
  /\ run.width * run.height <= MaxLiveCells

\* operator() is synchronous and single-threaded: while it is in its loop its
\* next statement is always executed, so an iteration, or the return, that
\* stays possible is taken.
SpecLive == InitLive /\ [][Next]_vars /\ WF_vars(LoopSteps)

\* ====================================================== direct use of a Grid
GridSizes == {wh \in (0..MaxW) \X (0..MaxH) : wh[1] * wh[2] <= MaxGridCells}

GridUses == {GridRun(wh[1], wh[2], pre) : wh \in GridSizes, pre \in BOOLEAN}

InitGrid ==
  /\ run \in GridUses
  /\ run2 = Idle

NextGrid ==
  \/ Invoke
  \/ GridConnect
  \/ GridConnectList
  \/ GridDisconnect
  \/ GridDisconnectRow
  \/ GridDisconnectCol

SpecGrid == InitGrid /\ [][NextGrid]_vars

\* ============================== Recursive Division on a grid 256 cells wide
\* The sizes at which a region is as wide, or as high, as a u_int8_t counts
WideSizes == {<<ByteRange, 2>>, <<2, ByteRange>>}

\* std::mt19937 mt(seed): the first 80 outputs of mt() for the seeds 0 to 5,
\* in the order they are given.  An output is a 32-bit value; the output
\* hi * 2^16 + lo is written <<hi, lo>>.
MtOutputs ==
  << <<<<35967, 2732>>, <<38852, 43567>>, <<46870, 42613>>, <<55329, 52416>>,
      <<39502, 45891>>, <<56226, 21243>>, <<35709, 30403>>, <<55525, 32103>>,
      <<27764, 41993>>, <<40865, 57043>>, <<42329, 20757>>, <<25190, 55026>>,
      <<28677, 46884>>, <<19499, 14935>>, <<58443, 15430>>, <<3716, 48600>>,
      <<63154, 39512>>, <<17868, 52620>>, <<25129, 14650>>, <<31304, 17089>>,
      <<51886, 32230>>, <<53226, 18983>>, <<34661, 43095>>, <<31455, 51374>>,
      <<37227, 24152>>, <<25741, 35665>>, <<60659, 59045>>, <<54793, 16921>>,
      <<4655, 27469>>, <<22111, 38984>>, <<5710, 6921>>, <<42478, 38804>>,
      <<1325, 2163>>, <<24133, 5072>>, <<54566, 37619>>, <<62728, 7877>>,
      <<50997, 18430>>, <<9198, 1871>>, <<57017, 7599>>, <<57022, 2496>>,
      <<64134, 47954>>, <<31038, 24675>>, <<52373, 42968>>, <<52488, 31921>>,
      <<30243, 33523>>, <<34110, 797>>, <<51152, 49811>>, <<44491, 3219>>,
      <<7751, 15246>>, <<47227, 24999>>, <<41937, 56608>>, <<38143, 16321>>,
      <<9394, 52489>>, <<35217, 19129>>, <<61909, 53887>>, <<49716, 41504>>,
      <<34199, 55839>>, <<6940, 49866>>, <<27175, 18676>>, <<31037, 57495>>,
      <<17337, 60067>>, <<12211, 31230>>, <<50740, 11723>>, <<48294, 43890>>,
      <<29894, 17591>>, <<14191, 55324>>, <<37252, 58146>>, <<8861, 43136>>,
      <<1231, 26752>>, <<21242, 59300>>, <<40477, 23605>>, <<9809, 6021>>,
      <<40114, 20006>>, <<14570, 3560>>, <<40431, 25332>>, <<25328, 61713>>,
      <<61849, 31055>>, <<59152, 45444>>, <<44683, 50793>>, <<29487, 60458>> >>,
     <<<<27329, 62501>>, <<65351, 33003>>, <<47207, 12172>>, <<61116, 5192>>,
      <<7, 32511>>, <<8396, 50057>>, <<19813, 43723>>, <<65473, 7813>>,
      <<9617, 52047>>, <<15472, 21440>>, <<6051, 32912>>, <<25990, 20609>>,
      <<12206, 49100>>, <<25422, 7751>>, <<22646, 43757>>, <<43892, 31228>>,
      <<26002, 36230>>, <<61311, 32025>>, <<35311, 58546>>, <<55463, 54548>>,
      <<27472, 21758>>, <<20530, 45413>>, <<44906, 35730>>, <<34376, 51668>>,
      <<13398, 64395>>, <<29062, 8444>>, <<57548, 19946>>, <<15045, 37532>>,
      <<1794, 57245>>, <<35023, 22926>>, <<43939, 49714>>, <<59897, 27204>>,
      <<27348, 31959>>, <<29963, 24535>>, <<36614, 19433>>, <<28226, 17137>>,
      <<9200, 26103>>, <<61546, 44510>>, <<12982, 51040>>, <<51012, 33878>>,
      <<52477, 39053>>, <<46921, 55273>>, <<63455, 64905>>, <<52609, 33799>>,
      <<20540, 37183>>, <<6081, 52029>>, <<45372, 3606>>, <<33957, 42297>>,
      <<57435, 2561>>, <<56689, 63360>>, <<58628, 61756>>, <<54338, 63697>>,
      <<5573, 29960>>, <<54368, 58072>>, <<2559, 32397>>, <<17894, 39539>>,
      <<11130, 431>>, <<3882, 36842>>, <<57549, 62073>>, <<43943, 47560>>,
      <<6445, 16926>>, <<38867, 9287>>, <<27597, 46467>>, <<44017, 34246>>,
      <<62776, 16277>>, <<26986, 60977>>, <<34941, 34105>>, <<12946, 45571>>,
      <<45342, 56260>>, <<18981, 11032>>, <<20677, 41457>>, <<9313, 64555>>,
      <<44990, 34380>>, <<51335, 19482>>, <<54698, 1844>>, <<27036, 9552>>,
      <<1198, 35437>>, <<2239, 29555>>, <<49161, 29993>>, <<40896, 28114>> >>,
     <<<<28573, 23720>>, <<12129, 35343>>, <<1699, 6637>>, <<61049, 30280>>,
      <<36022, 44566>>, <<62110, 31019>>, <<28529, 18898>>, <<31768, 33867>>,
      <<27549, 14696>>, <<21006, 44295>>, <<21648, 53922>>, <<10120, 33201>>,
      <<13411, 55903>>, <<45800, 43595>>, <<40584, 35541>>, <<7861, 5167>>,
      <<19638, 11071>>, <<31796, 32031>>, <<17486, 51930>>, <<41467, 6548>>,
      <<40706, 41084>>, <<53623, 20084>>, <<34677, 56101>>, <<44762, 51879>>,
      <<8819, 54467>>, <<32673, 46182>>, <<33657, 56068>>, <<38456, 21418>>,
      <<12087, 29547>>, <<47169, 53299>>, <<51467, 47463>>, <<16940, 60966>>,
      <<55966, 8170>>, <<35796, 15905>>, <<32390, 20026>>, <<26693, 21372>>,
      <<55480, 16639>>, <<11598, 56643>>, <<5219, 42309>>, <<63545, 54360>>,
      <<33111, 52932>>, <<19465, 25902>>, <<4278, 40390>>, <<18865, 50527>>,
      <<28057, 27859>>, <<7614, 55417>>, <<6326, 16415>>, <<11909, 43458>>,
      <<8333, 36432>>, <<32393, 50740>>, <<39108, 19694>>, <<37077, 64460>>,
      <<14811, 60466>>, <<14538, 12420>>, <<7008, 51930>>, <<50298, 19775>>,
      <<14437, 64719>>, <<37834, 30257>>, <<22926, 14119>>, <<10998, 30719>>,
      <<30656, 60334>>, <<24082, 39560>>, <<13221, 29106>>, <<30714, 65005>>,
      <<41969, 45562>>, <<42877, 64783>>, <<31658, 30441>>, <<51975, 60909>>,
      <<33111, 12680>>, <<43454, 27383>>, <<25355, 26001>>, <<40175, 33686>>,
      <<52011, 54008>>, <<64936, 31226>>, <<38011, 10101>>, <<7830, 36425>>,
      <<10636, 26297>>, <<9736, 22377>>, <<45924, 33134>>, <<55855, 5884>> >>,
     <<<<36097, 5994>>, <<4635, 1688>>, <<46409, 11513>>, <<55046, 59011>>,
      <<19064, 48056>>, <<7951, 25544>>, <<33477, 39168>>, <<37310, 25365>>,
      <<58520, 11261>>, <<28643, 19091>>, <<58739, 30410>>, <<1228, 43883>>,
      <<8230, 23545>>, <<2662, 50857>>, <<13581, 56970>>, <<16245, 39829>>,
      <<3372, 62583>>, <<6130, 64934>>, <<28888, 59872>>, <<45535, 63124>>,
      <<1957, 63404>>, <<9526, 64093>>, <<29939, 1447>>, <<29699, 6542>>,
      <<42542, 19960>>, <<14128, 3610>>, <<18250, 61777>>, <<23193, 34266>>,
      <<44319, 2710>>, <<32285, 25410>>, <<38722, 51458>>, <<59854, 8127>>,
      <<1571, 44348>>, <<50189, 12929>>, <<36625, 4019>>, <<63809, 858>>,
      <<16990, 24133>>, <<26369, 7016>>, <<27204, 4718>>, <<36226, 30305>>,
      <<18581, 6557>>, <<20077, 42602>>, <<45425, 31896>>, <<38444, 47611>>,
      <<28865, 37694>>, <<18017, 10759>>, <<10280, 31736>>, <<29793, 11435>>,
      <<35694, 7713>>, <<49654, 22907>>, <<51138, 46415>>, <<53580, 20656>>,
      <<20077, 55077>>, <<16881, 7188>>, <<14546, 15198>>, <<58527, 59953>>,
      <<25426, 5525>>, <<47082, 33151>>, <<61366, 54990>>, <<1350, 65012>>,
      <<63962, 54812>>, <<9353, 8055>>, <<44065, 22070>>, <<21319, 17408>>,
      <<59168, 8896>>, <<53013, 64489>>, <<55427, 8466>>, <<26148, 17780>>,
      <<24772, 14271>>, <<27833, 16037>>, <<6043, 35000>>, <<27113, 30648>>,
      <<42821, 61383>>, <<51585, 59557>>, <<36558, 42749>>, <<46764, 16046>>,
      <<23695, 33313>>, <<1515, 2161>>, <<14749, 11265>>, <<20694, 8021>> >>,
     <<<<63375, 17530>>, <<59023, 8366>>, <<35863, 27063>>, <<11317, 49861>>,
      <<63745, 55169>>, <<56073, 63848>>, <<46846, 11863>>, <<39913, 49608>>,
      <<45726, 23346>>, <<39161, 29065>>, <<14161, 42042>>, <<9270, 65276>>,
      <<63981, 8039>>, <<14713, 14445>>, <<408, 20062>>, <<45771, 43831>>,
      <<16579, 29623>>, <<59190, 46393>>, <<28494, 32616>>, <<41481, 56996>>,
      <<51077, 41906>>, <<338, 7212>>, <<12955, 32038>>, <<37509, 62590>>,
      <<56557, 8170>>, <<23691, 1588>>, <<64448, 9603>>, <<39592, 25600>>,
      <<10737, 37047>>, <<25674, 51733>>, <<39146, 57493>>, <<53211, 52937>>,
      <<588, 59814>>, <<40142, 30205>>, <<25334, 21990>>, <<17463, 41016>>,
      <<2894, 4802>>, <<42199, 37038>>, <<62695, 13685>>, <<53153, 50206>>,
      <<28583, 20104>>, <<1246, 52785>>, <<62192, 11586>>, <<2607, 3002>>,
      <<51531, 22871>>, <<61931, 50592>>, <<56773, 8872>>, <<29251, 61683>>,
      <<11348, 37290>>, <<28924, 14253>>, <<4911, 54433>>, <<4306, 22304>>,
      <<39370, 18046>>, <<11525, 15853>>, <<11008, 14748>>, <<56746, 32259>>,
      <<48062, 52594>>, <<55281, 30067>>, <<26767, 50895>>, <<60630, 54882>>,
      <<34597, 2143>>, <<57036, 26553>>, <<61444, 45311>>, <<54739, 25138>>,
      <<34189, 57489>>, <<17103, 4336>>, <<7090, 36817>>, <<2343, 29401>>,
      <<10369, 21577>>, <<14992, 12475>>, <<35730, 26288>>, <<13839, 60876>>,
      <<34367, 22679>>, <<11843, 46194>>, <<41786, 27870>>, <<20716, 65046>>,
      <<26312, 26563>>, <<15796, 46270>>, <<42585, 41150>>, <<24600, 9547>> >>,
     <<<<14548, 35683>>, <<3616, 18638>>, <<57064, 20463>>, <<54481, 59069>>,
      <<13547, 35814>>, <<23837, 56438>>, <<60202, 5520>>, <<64188, 59465>>,
      <<32008, 33800>>, <<5886, 33508>>, <<40091, 16103>>, <<26000, 34750>>,
      <<50194, 35227>>, <<23208, 51824>>, <<33975, 2718>>, <<31892, 20176>>,
      <<19451, 7687>>, <<64934, 28876>>, <<12302, 32655>>, <<52971, 35953>>,
      <<5291, 30133>>, <<42562, 61415>>, <<48394, 27728>>, <<53704, 63515>>,
      <<28921, 42028>>, <<15895, 8397>>, <<10374, 65227>>, <<50093, 60481>>,
      <<57667, 36271>>, <<7267, 65054>>, <<17962, 34772>>, <<13379, 31830>>,
      <<27147, 20093>>, <<7805, 2194>>, <<19403, 58622>>, <<57534, 16761>>,
      <<41208, 16009>>, <<34319, 38250>>, <<38000, 16425>>, <<32252, 40937>>,
      <<39316, 62910>>, <<47963, 59265>>, <<17420, 47314>>, <<955, 36967>>,
      <<18657, 11408>>, <<6118, 41934>>, <<16619, 10245>>, <<54169, 3898>>,
      <<21467, 15104>>, <<54623, 51152>>, <<9447, 62340>>, <<58485, 3182>>,
      <<10853, 39588>>, <<62784, 24425>>, <<63172, 9907>>, <<36787, 51739>>,
      <<62929, 27423>>, <<5934, 13058>>, <<12347, 61764>>, <<65273, 8486>>,
      <<1592, 62569>>, <<31286, 65491>>, <<13405, 49299>>, <<44886, 41234>>,
      <<45864, 62321>>, <<55271, 28917>>, <<51086, 17543>>, <<40378, 23396>>,
      <<1502, 61804>>, <<36909, 3693>>, <<37857, 46750>>, <<24127, 57534>>,
      <<107, 40715>>, <<45280, 56811>>, <<33782, 835>>, <<53488, 23932>>,
      <<41929, 40385>>, <<60662, 63671>>, <<64593, 57731>>, <<375, 55899>> >> >>

\* The k-th output of std::mt19937 mt(seed)
MtOutput(seed, k) == MtOutputs[seed + 1][k]

\* For the output out = <<hi, lo>>: the output below the least common
\* multiple of the moduli that is equal to it modulo each of them, so that
\* mt() % n is the same for both.
OutputFor(out, moduli) ==
  LET n == LcmOf(moduli)
  IN  (((out[1] % n) * (65536 % n)) + (out[2] % n)) % n

\* RecursiveDivisionGenerator()(width, height, seed) before its first statement
WideRun(width, height, seed) ==
  NewRun("Division", width, height, <<0, 0>>) @@ [seed |-> seed]

InitWide ==
  /\ run \in {WideRun(wh[1], wh[2], seed) : wh \in WideSizes, seed \in 0..MaxSeed}
  /\ run2 = Idle

\* The next call of Compute, with the outputs the seed of the invocation
\* gives: nDraws of them are drawn already.
WideDivisionStep ==
  /\ run.gen = "Division" /\ run.pc = "loop" /\ DivisionContinues(run)
  /\ LET r1 == OutputFor(MtOutput(run.seed, run.nDraws + 1), FirstModuli(run))
         r2 == OutputFor(MtOutput(run.seed, run.nDraws + 2), SecondModuli(run, r1))
         r3 == OutputFor(MtOutput(run.seed, run.nDraws + 3), ThirdModuli(run, r1))
     IN  run' = DivisionCompute(run, r1, r2, r3)
  /\ UNCHANGED run2

NextWide ==
  \/ Invoke
  \/ WideDivisionStep
  \/ Return

SpecWide == InitWide /\ [][NextWide]_vars

\* ================================= two invocations with the same arguments
\* Two invocations of one generator with the same width, height, startPoint
\* and seed: they differ in the addresses of their cells only.
InitPair ==
  /\ run \in {s \in Invocations :
                /\ TakesStartPoint(s.gen) \/ s.startPoint = <<0, 0>>
                /\ s.width * s.height <= MaxPairCells}
  /\ run2 = run

PairInvoke ==
  /\ run.pc = "call" /\ run2.pc = "call"
  /\ run' = Call(run)
  /\ run2' = Call(run2)

\* Both invocations are in their loops and neither loop is over
PairContinues ==
  /\ run.pc = "loop" /\ run2.pc = "loop"
  /\ Continues(run) /\ Continues(run2)

\* One iteration in each invocation.  The same seed gives both the same
\* outputs, while the cells each inserts in its std::set land where its own
\* addresses put them.
PairStep ==
  /\ PairContinues
  /\ \E r1 \in Outputs(FirstModuli(run) \cup FirstModuli(run2)) :
       \E r2 \in Outputs(SecondModuli(run, r1) \cup SecondModuli(run2, r1)) :
         \E r3 \in Outputs(ThirdModuli(run, r1) \cup ThirdModuli(run2, r1)) :
           \E o \in IterationPlacings(run, r1), o2 \in IterationPlacings(run2, r1) :
             /\ run' = Iteration(run, r1, r2, r3, o)
             /\ run2' = Iteration(run2, r1, r2, r3, o2)

PairReturn ==
  /\ run.pc = "loop" /\ run2.pc = "loop"
  /\ ~Continues(run) /\ ~Continues(run2)
  /\ run' = ReturnMaze(run)
  /\ run2' = ReturnMaze(run2)

NextPair ==
  \/ PairInvoke
  \/ PairStep
  \/ PairReturn

SpecPair == InitPair /\ [][NextPair]_vars

\* ====================== two invocations whose cells lie at other addresses
\* The generators none of whose containers is ordered by address
AddressFree == {"DFS", "Kruskals", "Division", "BinaryTree"}

\* The cells Grid::Init allocates for a width x height grid
GridCells(width, height) == (0..(width - 1)) \X (0..(height - 1))

\* Grid::Init allocates every Cell by itself (new Cell(x, y)), so the
\* allocator decides where each lies: the orders of address the cells of a
\* width x height grid can have, lowest address first.
AddressOrders(width, height) == Placings(<<>>, GridCells(width, height))

\* The invocation s whose cells the allocator places in the order addr.
\* Every cell keeps its connectedCells in a std::set ordered by
\* std::owner_less, which is this order; a generator that went through
\* such a set, or kept cells in a set of its own, would meet them in it.
HeapRun(s, addr) == s @@ [addr |-> addr]

\* Two invocations of a generator of AddressFree with the same width,
\* height, startPoint and seed, each with its cells in an order of its own.
InitHeap ==
  \E gen \in AddressFree : \E wh \in Sizes : \E sp \in Points :
    /\ wh[1] * wh[2] <= MaxHeapCells
    /\ TakesStartPoint(gen) \/ sp = <<0, 0>>
    /\ \E addr \in AddressOrders(wh[1], wh[2]) :
         run = HeapRun(NewRun(gen, wh[1], wh[2], sp), addr)
    /\ \E addr \in AddressOrders(wh[1], wh[2]) :
         run2 = HeapRun(NewRun(gen, wh[1], wh[2], sp), addr)

SpecHeap == InitHeap /\ [][NextPair]_vars

\* ========================================= a Grid used directly or generated
SpecAll == (Init \/ InitGrid) /\ [][Next \/ NextGrid]_vars

\* ========================================================== sort library
\* The sorting routines of the repository (bubble.hxx, quick.hxx, merge.hxx,
\* partition.hxx) as the specification describes them: textbook in-place
\* algorithms over a range [begin, end) of a sequence, ordered by a
\* comparator, that do nothing on an empty or inverted range.  A position is
\* an offset from the start of the container; the element at position i is
\* seq[i + 1].  The comparator is the default one or, with `greater`, its
\* reverse.

\* a may stand before b in comparator order
InOrder(greater, a, b) == IF greater THEN a >= b ELSE a <= b

\* std::swap of the elements at positions i and j
Swap(seq, i, j) == [seq EXCEPT ![i + 1] = seq[j + 1], ![j + 1] = seq[i + 1]]

\* One pass of Bubble over the positions i .. last
RECURSIVE BubblePass(_, _, _, _)
BubblePass(seq, i, last, greater) ==
  IF i >= last THEN seq
  ELSE BubblePass(IF InOrder(greater, seq[i + 1], seq[i + 2])
                  THEN seq ELSE Swap(seq, i, i + 1),
                  i + 1, last, greater)

\* The passes of Bubble, each one position shorter
RECURSIVE BubblePasses(_, _, _, _)
BubblePasses(seq, begin, last, greater) ==
  IF last <= begin THEN seq
  ELSE BubblePasses(BubblePass(seq, begin, last, greater), begin, last - 1, greater)

\* Variant of Bubble that makes a single pass.
BubbleOnePass(seq, begin, end, greater) ==
  IF begin >= end THEN seq ELSE BubblePass(seq, begin, end - 1, greater)

\* Bubble(begin, end)
Bubble(seq, begin, end, greater) ==
  IF begin >= end THEN seq ELSE BubblePasses(seq, begin, end - 1, greater)

\* The scan of Partition over the positions i .. last - 1, the pivot value at
\* position last: an element that may stand before the pivot moves to `store`
RECURSIVE PartitionScan(_, _, _, _, _)
PartitionScan(seq, i, store, last, greater) ==
  IF i >= last THEN [seq |-> Swap(seq, store, last), pivot |-> store]
  ELSE IF InOrder(greater, seq[i + 1], seq[last + 1])
       THEN PartitionScan(Swap(seq, i, store), i + 1, store + 1, last, greater)
       ELSE PartitionScan(seq, i + 1, store, last, greater)

\* Partition(begin, pivot, end): the sequence and the new position of the
\* pivot.  Nothing happens on an empty or inverted range or with the pivot
\* at end.
Partition(seq, begin, pivot, end, greater) ==
  IF begin >= end \/ pivot >= end \/ pivot < begin
  THEN [seq |-> seq, pivot |-> pivot]
  ELSE PartitionScan(Swap(seq, pivot, end - 1), begin, begin, end - 1, greater)

\* QuickSort(begin, end): partition around the middle element, then sort
\* both sides of the pivot
RECURSIVE QuickSort(_, _, _, _)
QuickSort(seq, begin, end, greater) ==
  IF end - begin < 2 THEN seq
  ELSE LET parted == Partition(seq, begin, begin + (end - begin) \div 2, end, greater)
           left == QuickSort(parted.seq, begin, parted.pivot, greater)
       IN  QuickSort(left, parted.pivot + 1, end, greater)

\* The merge of the sequences left and right, both in order
RECURSIVE Merged(_, _, _)
Merged(left, right, greater) ==
  IF left = <<>> THEN right
  ELSE IF right = <<>> THEN left
  ELSE IF InOrder(greater, Head(left), Head(right))
       THEN <<Head(left)>> \o Merged(Tail(left), right, greater)
       ELSE <<Head(right)>> \o Merged(left, Tail(right), greater)

\* Variant of MergeWithBuffer that tests begin against middle only.
MergeWithBufferUnchecked(seq, begin, middle, end, greater) ==
  IF begin >= middle THEN seq
  ELSE SubSeq(seq, 1, begin)
         \o Merged(SubSeq(seq, begin + 1, middle), SubSeq(seq, middle + 1, end), greater)
         \o SubSeq(seq, end + 1, Len(seq))

\* MergeWithBuffer()(begin, middle, end): [begin, middle) and [middle, end)
\* merged through a buffer and copied back
MergeWithBuffer(seq, begin, middle, end, greater) ==
  IF begin >= middle \/ middle >= end THEN seq
  ELSE SubSeq(seq, 1, begin)
         \o Merged(SubSeq(seq, begin + 1, middle), SubSeq(seq, middle + 1, end), greater)
         \o SubSeq(seq, end + 1, Len(seq))

\* MergeInPlace: the element swapped into the right part sinks to its place
RECURSIVE SinkRight(_, _, _, _)
SinkRight(seq, i, end, greater) ==
  IF i + 1 >= end \/ InOrder(greater, seq[i + 1], seq[i + 2]) THEN seq
  ELSE SinkRight(Swap(seq, i, i + 1), i + 1, end, greater)

\* MergeInPlace: the walk over the left part from position i on
RECURSIVE MergeInPlaceFrom(_, _, _, _, _)
MergeInPlaceFrom(seq, i, middle, end, greater) ==
  IF i >= middle THEN seq
  ELSE IF InOrder(greater, seq[i + 1], seq[middle + 1])
       THEN MergeInPlaceFrom(seq, i + 1, middle, end, greater)
       ELSE MergeInPlaceFrom(SinkRight(Swap(seq, i, middle), middle, end, greater),
                             i + 1, middle, end, greater)

\* MergeInPlace()(begin, middle, end)
MergeInPlace(seq, begin, middle, end, greater) ==
  IF begin >= middle \/ middle >= end THEN seq
  ELSE MergeInPlaceFrom(seq, begin, middle, end, greater)

\* MergeSort(begin, end): sort both halves, then merge them with the buffer
RECURSIVE MergeSort(_, _, _, _)
MergeSort(seq, begin, end, greater) ==
  IF end - begin < 2 THEN seq
  ELSE LET middle == begin + (end - begin) \div 2
           left == MergeSort(seq, begin, middle, greater)
           both == MergeSort(left, middle, end, greater)
       IN  MergeWithBuffer(both, begin, middle, end, greater)

\* ------------------------------------------------- calls of the sort library
Sorters == {"Bubble", "QuickSort", "MergeSort"}

Mergers == {"MergeInPlace", "MergeWithBuffer"}

\* The containers sorted
Containers == UNION {[1..n -> 0..MaxVal] : n \in 0..MaxSeqLen}

\* A call of routine fn on the container seq with the positions begin,
\* middle (the pivot of Partition, the middle of a merge) and end, before it
\* runs.  `input` keeps the container as it was passed.
SortCall(fn, seq, begin, middle, end, greater) ==
  [gen |-> fn, pc |-> "call", input |-> seq, seq |-> seq, begin |-> begin,
   middle |-> middle, end |-> end, greater |-> greater, pivot |-> middle]

\* The routines of the library
Routines == Sorters \cup Mergers \cup {"Partition"}

\* The calls explored: every container, every pair of positions in it, in
\* order or inverted, both comparators; for Partition every pivot of the
\* range and end, for the merges every middle of the range.
InitSort ==
  /\ \E seq \in Containers, fn \in Routines, gt \in BOOLEAN :
       \E b \in 0..Len(seq), m \in 0..Len(seq), e \in 0..Len(seq) :
         /\ fn \in Sorters => m = b
         /\ (fn \notin Sorters /\ b < e) => (b <= m /\ m <= e)
         /\ run = SortCall(fn, seq, b, m, e, gt)
  /\ run2 = Idle

\* The call has returned
SortDone(s, seq) == [s EXCEPT !.pc = "done", !.seq = seq]

BubbleCall ==
  /\ run.gen = "Bubble" /\ run.pc = "call"
  /\ run' = SortDone(run, Bubble(run.seq, run.begin, run.end, run.greater))
  /\ UNCHANGED run2

QuickSortCall ==
  /\ run.gen = "QuickSort" /\ run.pc = "call"
  /\ run' = SortDone(run, QuickSort(run.seq, run.begin, run.end, run.greater))
  /\ UNCHANGED run2

MergeSortCall ==
  /\ run.gen = "MergeSort" /\ run.pc = "call"
  /\ run' = SortDone(run, MergeSort(run.seq, run.begin, run.end, run.greater))
  /\ UNCHANGED run2

PartitionCall ==
  /\ run.gen = "Partition" /\ run.pc = "call"
  /\ LET parted == Partition(run.seq, run.begin, run.middle, run.end, run.greater)
     IN  run' = [SortDone(run, parted.seq) EXCEPT !.pivot = parted.pivot]
  /\ UNCHANGED run2

MergeInPlaceCall ==
  /\ run.gen = "MergeInPlace" /\ run.pc = "call"
  /\ run' = SortDone(run, MergeInPlace(run.seq, run.begin, run.middle, run.end,
                                       run.greater))
  /\ UNCHANGED run2

MergeWithBufferCall ==
  /\ run.gen = "MergeWithBuffer" /\ run.pc = "call"
  /\ run' = SortDone(run, MergeWithBuffer(run.seq, run.begin, run.middle, run.end,
                                          run.greater))
  /\ UNCHANGED run2

NextSort ==
  \/ BubbleCall
  \/ QuickSortCall
  \/ MergeSortCall
  \/ PartitionCall
  \/ MergeInPlaceCall
  \/ MergeWithBufferCall

SpecSort == InitSort /\ [][NextSort]_vars

\* ============================================================ maze as a graph
\* The cells joined to c by a connection, whichever of the two cells holds it
Joined(g, c) == g.conn[c] \cup {d \in Cells(g) : c \in g.conn[d]}

\* The cells reachable from the cells `seen` through connections
RECURSIVE ReachedFrom(_, _)
ReachedFrom(g, seen) ==
  LET more == seen \cup UNION {Joined(g, c) : c \in seen}
  IN  IF more = seen THEN seen ELSE ReachedFrom(g, more)

\* Every cell is reachable from every other
IsConnectedGraph(g) ==
  \/ Cells(g) = {}
  \/ ReachedFrom(g, {CHOOSE c \in Cells(g) : TRUE}) = Cells(g)

\* The undirected connections: the pairs {a, b} with b in a's connection set
Links(g) == UNION {{{a, b} : b \in g.conn[a]} : a \in Cells(g)}

EdgeCount(g) == Cardinality(Links(g))

\* A perfect maze over the width x height cells asked for
Perfect(s) ==
  /\ IsConnectedGraph(s.maze)
  /\ EdgeCount(s.maze) = s.width * s.height - 1

\* The invocation of generator gen has returned a maze
Returned(s, gen) == s.gen = gen /\ s.pc = "done" /\ s.result = "maze"

\* The two cells are cardinal neighbours
AreNeighbours(a, b) ==
  \/ a[1] = b[1] /\ (a[2] = b[2] + 1 \/ b[2] = a[2] + 1)
  \/ a[2] = b[2] /\ (a[1] = b[1] + 1 \/ b[1] = a[1] + 1)

\* ==================================================================== claims
\* C1: after any sequence of Grid operations (construction with or without
\* preConnected, Connect(a,b), Connect(a,list), Disconnect, DisconnectRow,
\* DisconnectCol), b is in a's connection set iff a is in b's.
ConnectionsSymmetric ==
  \A a \in Cells(run.maze) : \A b \in Cells(run.maze) :
    (b \in run.maze.conn[a]) <=> (a \in run.maze.conn[b])

\* C1 witness: a pre-connected grid after MaxOps calls that have removed a
\* connection between two neighbours and added one between two cells that
\* are not neighbours.
ConnectionsSymmetricWitness ==
  /\ run.pc = "api" /\ run.preConnected /\ run.nOps = MaxOps
  /\ \E a \in Cells(run.maze) : \E b \in Cells(run.maze) :
       AreNeighbours(a, b) /\ b \notin run.maze.conn[a]
  /\ \E a \in Cells(run.maze) : \E b \in Cells(run.maze) :
       a # b /\ ~AreNeighbours(a, b) /\ b \in run.maze.conn[a]

\* C2: the maze DFSGenerator returns is connected and has exactly
\* width * height - 1 undirected connections, for every start point and
\* every sequence of draws.
DFSMazeIsPerfect == Returned(run, "DFS") => Perfect(run)

\* C2 witness: a returned DFS maze of at least 2 x 2 cells, started away from
\* the origin, that took several draws.
DFSMazeIsPerfectWitness ==
  /\ Returned(run, "DFS") /\ run.width >= 2 /\ run.height >= 2
  /\ run.startPoint # <<0, 0>> /\ run.nDraws >= 3

\* C3: the maze KruskalsGenerator returns is connected and has exactly
\* width * height - 1 undirected connections (none for 1 x 1).
KruskalsMazeIsPerfect == Returned(run, "Kruskals") => Perfect(run)

\* C3 witness: a returned Kruskal's maze of at least 2 x 2 cells.
KruskalsMazeIsPerfectWitness ==
  /\ Returned(run, "Kruskals") /\ run.width >= 2 /\ run.height >= 2
  /\ run.nDraws >= 3

\* C4: the maze PrimsGenerator returns is connected and has exactly
\* width * height - 1 undirected connections.
PrimsMazeIsPerfect == Returned(run, "Prims") => Perfect(run)

\* C4 witness: a returned Prim's maze of at least 2 x 2 cells, started away
\* from the origin.
PrimsMazeIsPerfectWitness ==
  /\ Returned(run, "Prims") /\ run.width >= 2 /\ run.height >= 2
  /\ run.startPoint # <<0, 0>> /\ run.nDraws >= 3

\* C5: the maze RecursiveDivisionGenerator returns is connected and has
\* exactly width * height - 1 undirected connections, for every width and
\* height it accepts.
DivisionMazeIsPerfect == Returned(run, "Division") => Perfect(run)

\* C6: the maze BinaryTreeGenerator returns is connected and acyclic, with
\* exactly width * height - 1 undirected connections.
BinaryTreeMazeIsPerfect == Returned(run, "BinaryTree") => Perfect(run)

\* C6 witness: a returned Binary Tree maze of at least 2 x 2 cells.
BinaryTreeMazeIsPerfectWitness ==
  /\ Returned(run, "BinaryTree") /\ run.width >= 2 /\ run.height >= 2
  /\ run.nDraws >= 1

\* C7: the maze SidewinderGenerator returns is connected and acyclic, with
\* exactly width * height - 1 undirected connections.
SidewinderMazeIsPerfect == Returned(run, "Sidewinder") => Perfect(run)

\* C7 witness: a returned Sidewinder maze of at least 2 x 2 cells in which a
\* cell of a lower row is connected eastward (a run of two cells).
SidewinderMazeIsPerfectWitness ==
  /\ Returned(run, "Sidewinder") /\ run.width >= 2 /\ run.height >= 2
  /\ \E c \in Cells(run.maze) :
       c[2] > 0 /\ <<c[1] + 1, c[2]>> \in run.maze.conn[c]

\* The arguments the generators accept, as the claim states them
ValidArguments(s) ==
  /\ s.width >= 1 /\ s.height >= 1
  /\ TakesStartPoint(s.gen) =>
       (s.startPoint[1] < s.width /\ s.startPoint[2] < s.height)

\* C8: every generator returns null when width < 1 or height < 1, DFS and
\* Prim's also when the start point is outside the grid, before any grid is
\* built, any number drawn or any connection made; for every other input
\* the result is a maze.
ArgumentsChecked ==
  /\ (run.gen \in Generators /\ run.pc # "call" /\ ~ValidArguments(run)) =>
       /\ run.pc = "done" /\ run.result = "null"
       /\ ~run.built /\ run.maze = EmptyGrid /\ run.nDraws = 0
  /\ (run.gen \in Generators /\ run.pc # "call" /\ ValidArguments(run)) =>
       /\ run.built /\ run.result # "null"
       /\ run.pc = "done" => run.result = "maze"

\* C8 witness: a DFS or Prim's invocation with a valid size rejected for its
\* start point.
ArgumentsCheckedWitness ==
  /\ TakesStartPoint(run.gen) /\ run.width >= 1 /\ run.height >= 1
  /\ run.startPoint[1] >= run.width
  /\ run.pc = "done" /\ run.result = "null"

\* The grid holds exactly one cell per coordinate of width x height
HasExactCells(s) ==
  /\ Width(s.maze) = s.width
  /\ Height(s.maze) = s.height
  /\ \A x \in 1..Len(s.maze.data) : Len(s.maze.data[x]) = s.height
  /\ \A x \in 0..(s.width - 1) : \A y \in 0..(s.height - 1) :
       At(s.maze, x, y) = <<x, y>>
  /\ Cells(s.maze) = (0..(s.width - 1)) \X (0..(s.height - 1))

\* C9: for valid inputs the maze of every generator has Width() = width and
\* Height() = height and holds exactly one cell per coordinate, and no Grid
\* operation changes the cells, Width() or Height() of a constructed grid.
DimensionsKept ==
  [][/\ (run'.built /\ run'.gen \in Generators) => HasExactCells(run')
     /\ run.built =>
          /\ run'.built
          /\ Width(run'.maze) = Width(run.maze)
          /\ Height(run'.maze) = Height(run.maze)
          /\ run'.maze.data = run.maze.data]_vars

\* C9 witness: a returned maze wider than high whose cells were both
\* connected and disconnected.
DimensionsKeptWitness ==
  /\ Returned(run, "Division") /\ run.width = 3 /\ run.height = 2
  /\ run.nDraws >= 6

AddressOrdered == {"Prims", "Sidewinder"}

\* C11: two invocations of Prim's or Sidewinder with the same width, height,
\* startPoint and sequence of draws hold the same connection set for every
\* cell when both have returned, whatever the order of the cells' addresses.
AddressOrderedSameMaze ==
  (run.gen \in AddressOrdered /\ Returned(run, run.gen) /\ Returned(run2, run.gen)) =>
    run2.maze.conn = run.maze.conn

\* C12: on every grid a caller can have built, for all cells a and b:
\* Connect(a, b) twice gives the connection sets of Connect(a, b) once,
\* Disconnect(a, b) twice those of Disconnect(a, b) once, and Disconnect(a, b)
\* of two cells that are not connected changes nothing.
ConnectDisconnectIdempotent ==
  run.pc = "api" =>
    \A a \in Cells(run.maze) : \A b \in Cells(run.maze) :
      LET g == run.maze
          once == Connect(g, a, b)
          cut == Disconnect(g, a, b)
      IN  /\ Connect(once, a, b).conn = once.conn
          /\ Disconnect(cut, a, b).conn = cut.conn
          /\ (b \notin g.conn[a] /\ a \notin g.conn[b]) => cut.conn = g.conn

\* C12 witness: a grid, after calls on it, that holds a pair of cells that
\* is connected (a second Connect has something to repeat) and a pair that
\* is not (Disconnect has nothing to remove), a cell connected to itself
\* included.
ConnectDisconnectIdempotentWitness ==
  /\ run.pc = "api" /\ run.nOps >= 1
  /\ \E a \in Cells(run.maze) : a \in run.maze.conn[a]
  /\ \E a \in Cells(run.maze) : \E b \in Cells(run.maze) :
       a # b /\ b \in run.maze.conn[a]
  /\ \E a \in Cells(run.maze) : \E b \in Cells(run.maze) :
       a # b /\ b \notin run.maze.conn[a] /\ a \notin run.maze.conn[b]

\* The connection sets once the connection between a and b is gone from
\* every pair <<a, b>> of `pairs`, all else as in g
Without(g, pairs) ==
  [c \in Cells(g) |->
     g.conn[c] \ {d \in Cells(g) : <<c, d>> \in pairs \/ <<d, c>> \in pairs}]

\* The pairs across the wall under row rowIndex of the region: one per
\* x in [0, width), but for x = pathIndex
RowWall(origin, rowIndex, width, pathIndex) ==
  {<<<<origin[1] + x, origin[2] + rowIndex>>,
     <<origin[1] + x, origin[2] + rowIndex + 1>>>> :
     x \in (0..(width - 1)) \ {pathIndex}}

\* The pairs across the wall right of column colIndex of the region
ColWall(origin, colIndex, height, pathIndex) ==
  {<<<<origin[1] + colIndex, origin[2] + y>>,
     <<origin[1] + colIndex + 1, origin[2] + y>>>> :
     y \in (0..(height - 1)) \ {pathIndex}}

\* The regions a wall is built in: those Compute is still to divide, and
\* for a grid used directly every region of the grid
WallRegions(s) ==
  IF s.pc = "api" THEN RegionsOf(s.maze) ELSE Range(s.calls)

\* C13: within the preconditions (rowIndex + 1 a row of the region, pathIndex
\* in [0, width)), DisconnectRow removes exactly the connections across the
\* wall except the one at pathIndex and leaves every other connection, and
\* DisconnectCol does the same along a column, for regions of 256 cells and
\* more as for small ones.
WallsAreCut ==
  run.built =>
    \A rg \in WallRegions(run) :
      /\ \A idx \in 0..(rg.height - 2) : \A pathIdx \in 0..(rg.width - 1) :
           DisconnectRow(run.maze, rg.origin, idx, rg.width, pathIdx).conn
             = Without(run.maze, RowWall(rg.origin, idx, rg.width, pathIdx))
      /\ \A idx \in 0..(rg.width - 2) : \A pathIdx \in 0..(rg.height - 1) :
           DisconnectCol(run.maze, rg.origin, idx, rg.height, pathIdx).conn
             = Without(run.maze, ColWall(rg.origin, idx, rg.height, pathIdx))

\* C14: right after Grid(w, h, true) two cells are connected iff they are
\* cardinal neighbours, which makes (w-1)*h + w*(h-1) undirected
\* connections; right after Grid(w, h, false) every connection set is empty.
ConstructedConnections ==
  (run.pc = "api" /\ run.nOps = 0) =>
    /\ run.preConnected =>
         /\ \A p \in Cells(run.maze) : \A q \in Cells(run.maze) :
              (q \in run.maze.conn[p]) <=> AreNeighbours(p, q)
         /\ (run.width >= 1 /\ run.height >= 1) =>
              EdgeCount(run.maze) = (run.width - 1) * run.height
                                      + run.width * (run.height - 1)
    /\ ~run.preConnected =>
         \A p \in Cells(run.maze) : run.maze.conn[p] = {}

\* C14 witness: a grid just constructed connected, with an interior row and
\* column (3 x 2 cells).
ConstructedConnectionsWitness ==
  /\ run.pc = "api" /\ run.nOps = 0 /\ run.preConnected
  /\ run.width = 3 /\ run.height = 2
  /\ EdgeCount(run.maze) = 7

\* C15: a Grid constructed with width 0 or height 0, connected or not, holds
\* no cell and both its Width() and its Height() are 0.
EmptyGridIsEmpty ==
  (run.pc = "api" /\ (run.width = 0 \/ run.height = 0)) =>
    /\ Cells(run.maze) = {}
    /\ Width(run.maze) = 0
    /\ Height(run.maze) = 0

\* The invocation s after its call that turns the grid into g leaves the
\* cells other than a and b, the CellInfo fields and the dimensions alone
FrameKept(s, g, a, b) ==
  LET after == Used(s, g)
  IN  /\ \A c \in Cells(s.maze) \ {a, b} : after.maze.conn[c] = s.maze.conn[c]
      /\ after.isVisited = s.isVisited
      /\ after.rootDistance = s.rootDistance
      /\ after.bucketId = s.bucketId
      /\ after.maze.data = s.maze.data
      /\ Width(after.maze) = Width(s.maze)
      /\ Height(after.maze) = Height(s.maze)

\* C16: on every grid a caller can have built, a call of Connect(a, b) or
\* Disconnect(a, b) leaves the connection set of every cell other than a and
\* b, the isVisited, rootDistance and bucketId of every cell, the cells and
\* Width() and Height() as they were.
ConnectDisconnectFrame ==
  run.pc = "api" =>
    \A a \in Cells(run.maze) : \A b \in Cells(run.maze) :
      /\ FrameKept(run, Connect(run.maze, a, b), a, b)
      /\ FrameKept(run, Disconnect(run.maze, a, b), a, b)

\* C16 witness: a grid of at least four cells on which a call has removed a
\* connection the constructor made and a call has connected two cells that
\* are no neighbours, other cells keeping theirs.
ConnectDisconnectFrameWitness ==
  /\ run.pc = "api" /\ run.preConnected /\ run.nOps = MaxOps
  /\ Cardinality(Cells(run.maze)) >= 4
  /\ \E a \in Cells(run.maze) : \E b \in Cells(run.maze) :
       /\ a # b /\ ~AreNeighbours(a, b) /\ b \in run.maze.conn[a]
       /\ \E c \in Cells(run.maze) \ {a, b} : \E d \in Cells(run.maze) \ {a, b} :
            AreNeighbours(c, d) /\ d \notin run.maze.conn[c]
       /\ \E c \in Cells(run.maze) \ {a, b} : run.maze.conn[c] # {}

\* C17: over the edges Kruskal's puts in its std::set<Edge>, Edge::operator<
\* is irreflexive, asymmetric and transitive, and no two distinct edges are
\* equivalent under it (neither less than the other).
EdgeOrderIsValid ==
  (run.gen = "Kruskals" /\ run.built) =>
    \A e1 \in FillEdges(run.maze) : \A e2 \in FillEdges(run.maze) :
      /\ ~EdgeLess(e1, e1)
      /\ ~(EdgeLess(e1, e2) /\ EdgeLess(e2, e1))
      /\ \A e3 \in FillEdges(run.maze) :
           (EdgeLess(e1, e2) /\ EdgeLess(e2, e3)) => EdgeLess(e1, e3)
      /\ (e1 # e2) => (EdgeLess(e1, e2) \/ EdgeLess(e2, e1))

\* C20: once the fill loop of Kruskal's has run, the edge pool holds one edge
\* for every pair of horizontally or vertically adjacent cells:
\* (width-1)*height + width*(height-1) edges in all.
KruskalsPoolIsFull ==
  (run.gen = "Kruskals" /\ run.pc = "loop" /\ run.nDraws = 0) =>
    /\ Range(run.edges) = FillEdges(run.maze)
    /\ Len(run.edges) = (run.width - 1) * run.height
                           + run.width * (run.height - 1)

\* The number of positions of seq that hold v
Count(seq, v) == Cardinality({i \in 1..Len(seq) : seq[i] = v})

\* seq is a rearrangement of the elements of input
IsPermutation(seq, input) ==
  /\ Len(seq) = Len(input)
  /\ \A v \in 0..MaxVal : Count(seq, v) = Count(input, v)

\* C18: Bubble, QuickSort and MergeSort on a valid range [begin, end) leave a
\* permutation of the input with every adjacent pair of the range in
\* comparator order (non-decreasing by default, non-increasing with greater);
\* Partition returns a position that holds the pivot's value, with every
\* element of the range before it not after the pivot and every element from
\* it on not before the pivot.
SortedOrPartitioned ==
  (run.pc = "done" /\ run.begin < run.end) =>
    /\ run.gen \in Sorters =>
         /\ IsPermutation(run.seq, run.input)
         /\ \A i \in (run.begin + 1)..(run.end - 1) :
              InOrder(run.greater, run.seq[i], run.seq[i + 1])
    /\ (run.gen = "Partition" /\ run.middle < run.end) =>
         /\ IsPermutation(run.seq, run.input)
         /\ run.pivot \in run.begin..(run.end - 1)
         /\ run.seq[run.pivot + 1] = run.input[run.middle + 1]
         /\ \A i \in (run.begin + 1)..run.pivot :
              InOrder(run.greater, run.seq[i], run.seq[run.pivot + 1])
         /\ \A i \in (run.pivot + 1)..run.end :
              InOrder(run.greater, run.seq[run.pivot + 1], run.seq[i])

\* C18 witness: a sort, with the greater comparator, has reordered a range of
\* three elements or more that was not in order.
SortedOrPartitionedWitness ==
  /\ run.pc = "done" /\ run.gen = "QuickSort" /\ run.greater
  /\ run.end - run.begin >= 3
  /\ run.seq # run.input

\* C19: Bubble, QuickSort, MergeSort, MergeInPlace, MergeWithBuffer and
\* Partition leave every element where it was when the range is empty or
\* begin is after end, and Partition also when the pivot is end.
InvalidRangeUntouched ==
  (run.pc = "done" /\ run.gen \in Routines) =>
    /\ run.begin >= run.end => run.seq = run.input
    /\ (run.gen = "Partition" /\ run.middle = run.end) => run.seq = run.input

\* C19 witness: a merge has returned from a call with begin after end on a
\* container that is not in order.
InvalidRangeUntouchedWitness ==
  /\ run.pc = "done" /\ run.gen = "MergeInPlace"
  /\ run.begin > run.end /\ run.end < run.middle /\ run.middle < run.begin
  /\ \E i \in 1..(Len(run.seq) - 1) : run.seq[i] > run.seq[i + 1]

\* The invocation is in the loop of Kruskal's with edges left to pick
KruskalsPicks(s) == s.gen = "Kruskals" /\ s.pc = "loop" /\ KruskalsContinues(s)

\* The iteration from s to t has picked the edge at position k of the pool:
\* the edge is gone from the pool; endpoints of one bucket leave the maze and
\* the buckets as they were; endpoints of two buckets are connected and the
\* cells of both buckets are in the bucket `kept`, whose id they carry, while
\* the other one is empty and every other cell keeps its bucket.
PickedEdge(s, t, k, kept) ==
  LET edge == s.edges[k + 1]
      firstBucket == s.bucketId[edge[1]]
      secondBucket == s.bucketId[edge[2]]
      other == IF kept = firstBucket THEN secondBucket ELSE firstBucket
      both == Range(s.bucketCells[firstBucket + 1])
                \cup Range(s.bucketCells[secondBucket + 1])
  IN  /\ t.edges = SubSeq(s.edges, 1, k) \o SubSeq(s.edges, k + 2, Len(s.edges))
      /\ firstBucket = secondBucket =>
           /\ t.maze = s.maze
           /\ t.bucketId = s.bucketId
           /\ t.bucketCells = s.bucketCells
      /\ firstBucket # secondBucket =>
           /\ t.maze = Connect(s.maze, edge[1], edge[2])
           /\ Range(t.bucketCells[kept + 1]) = both
           /\ Len(t.bucketCells[kept + 1]) = Cardinality(both)
           /\ t.bucketCells[other + 1] = <<>>
           /\ \A c \in both : t.bucketId[c] = kept
           /\ \A c \in Cells(s.maze) \ both : t.bucketId[c] = s.bucketId[c]
           /\ \A i \in (1..Len(s.bucketCells)) \ {kept + 1, other + 1} :
                t.bucketCells[i] = s.bucketCells[i]

\* The id of the larger of the buckets of the endpoints of the edge at
\* position k; of the second endpoint when they are of one size.
LargerBucket(s, k) ==
  LET edge == s.edges[k + 1]
      firstBucket == s.bucketId[edge[1]]
      secondBucket == s.bucketId[edge[2]]
  IN  IF Len(s.bucketCells[firstBucket + 1]) > Len(s.bucketCells[secondBucket + 1])
      THEN firstBucket ELSE secondBucket

\* C21 as stated: an iteration of Kruskal's removes the edge it picks from
\* the pool, connects nothing when the endpoints share a bucket, and
\* otherwise connects them and moves the cells of the smaller bucket into
\* the larger one, which keeps its id.
KruskalsUnionBySize ==
  KruskalsPicks(run) =>
    \A r \in Outputs(FirstModuli(run)) :
      PickedEdge(run, KruskalsIteration(run, r), RandMod(r, Len(run.edges)),
                 LargerBucket(run, RandMod(r, Len(run.edges))))

\* C21: an iteration of Kruskal's removes the edge it picks from the pool,
\* connects nothing when the endpoints share a bucket, and otherwise connects
\* them and moves the cells of the first endpoint's bucket into the second
\* endpoint's bucket, which keeps its id, whatever the sizes of the two.
KruskalsUnionIntoSecond ==
  KruskalsPicks(run) =>
    \A r \in Outputs(FirstModuli(run)) :
      PickedEdge(run, KruskalsIteration(run, r), RandMod(r, Len(run.edges)),
                 run.bucketId[run.edges[RandMod(r, Len(run.edges)) + 1][2]])

\* C21 witness: after some merges, the pool holds an edge from a bucket of
\* two cells or more to a smaller bucket.
KruskalsUnionIntoSecondWitness ==
  /\ KruskalsPicks(run) /\ run.nDraws >= 2
  /\ \E k \in 1..Len(run.edges) :
       LET first == run.bucketId[run.edges[k][1]]
           second == run.bucketId[run.edges[k][2]]
       IN  /\ first # second
           /\ Len(run.bucketCells[first + 1]) > Len(run.bucketCells[second + 1])

\* A path of maze connections joins a and b
PathJoins(g, a, b) == b \in ReachedFrom(g, {a})

\* C22: whenever Kruskal's is at the start of a loop iteration (or at the
\* loop's end), every cell is listed once in bucketCells[cell.bucketId] and
\* in no other bucket; two cells have the same bucketId iff a path of maze
\* connections joins them; and an iteration that makes a connection makes it
\* between two cells that no path joined.
KruskalsBuckets ==
  (run.gen = "Kruskals" /\ run.pc = "loop") =>
    /\ Len(run.bucketCells) = run.width * run.height
    /\ \A c \in Cells(run.maze) : \A i \in 1..Len(run.bucketCells) :
         Cardinality({j \in 1..Len(run.bucketCells[i]) : run.bucketCells[i][j] = c})
           = IF i = run.bucketId[c] + 1 THEN 1 ELSE 0
    /\ \A a \in Cells(run.maze) : \A b \in Cells(run.maze) :
         (run.bucketId[a] = run.bucketId[b]) <=> PathJoins(run.maze, a, b)
    /\ KruskalsContinues(run) =>
         \A r \in Outputs(FirstModuli(run)) :
           LET edge == run.edges[RandMod(r, Len(run.edges)) + 1]
           IN  KruskalsIteration(run, r).maze # run.maze =>
                 ~PathJoins(run.maze, edge[1], edge[2])

\* C22 witness: an iteration starts with a bucket of three cells or more,
\* a bucket of one cell and an emptied bucket.
KruskalsBucketsWitness ==
  /\ KruskalsPicks(run)
  /\ \E i \in 1..Len(run.bucketCells) : Len(run.bucketCells[i]) >= 3
  /\ \E i \in 1..Len(run.bucketCells) : Len(run.bucketCells[i]) = 1
  /\ \E i \in 1..Len(run.bucketCells) : Len(run.bucketCells[i]) = 0

\* The cells that the step from s to t has turned visited
TurnedVisited(s, t) == {c \in Cells(s.maze) : ~s.isVisited[c] /\ t.isVisited[c]}

\* The number of cells of the region of a call of Compute
Area(call) == call.width * call.height

\* The step from s to t, both in the loop, is one iteration as the claim
\* describes it, by generator.
IterationAdvances(s, t) ==
  /\ s.gen = "DFS" =>
       LET n == Len(s.pathStack)
           pushed == SubSeq(t.pathStack, n, Len(t.pathStack))
       IN  /\ Len(t.pathStack) >= n - 1
           /\ SubSeq(t.pathStack, 1, n - 1) = SubSeq(s.pathStack, 1, n - 1)
           /\ Range(pushed) = TurnedVisited(s, t)
           /\ Len(pushed) = Cardinality(Range(pushed))
           /\ \A c \in Cells(s.maze) : s.isVisited[c] => t.isVisited[c]
  /\ s.gen = "Kruskals" => Len(t.edges) = Len(s.edges) - 1
  /\ s.gen = "Prims" =>
       /\ Cardinality(s.pathSet \ t.pathSet) = 1
       /\ TurnedVisited(s, t) = s.pathSet \ t.pathSet
       /\ \A c \in t.pathSet : ~t.isVisited[c]
       /\ \A c \in Cells(s.maze) : s.isVisited[c] => t.isVisited[c]
  /\ s.gen = "Division" =>
       LET n == Len(s.calls)
           call == s.calls[n]
           made == SubSeq(t.calls, n, Len(t.calls))
       IN  /\ SubSeq(t.calls, 1, n - 1) = SubSeq(s.calls, 1, n - 1)
           /\ Len(made) \in {0, 2}
           /\ \A i \in 1..Len(made) :
                /\ made[i].width >= 1 /\ made[i].height >= 1
                /\ made[i].width <= call.width /\ made[i].height <= call.height
                /\ Area(made[i]) < Area(call)
  /\ s.gen \in {"BinaryTree", "Sidewinder"} =>
       /\ s.x < s.width /\ s.y < s.height
       /\ t.y * s.width + t.x = s.y * s.width + s.x + 1

\* C23: every generator call returns: a step of the loop is one iteration
\* that pops one cell and pushes exactly the cells it turns visited, each
\* once (DFS), removes one edge (Kruskal's), removes one frontier cell, the
\* one it turns visited, and leaves no visited cell in the frontier
\* (Prim's), replaces a call of Compute by none or by two calls on strictly
\* smaller regions (Recursive Division), or moves to the next cell in raster
\* order (Binary Tree, Sidewinder); and every invocation that enters its
\* loop reaches its return.
GeneratorsTerminate ==
  /\ [][(run.pc = "loop" /\ run'.pc = "loop") => IterationAdvances(run, run')]_vars
  /\ (run.pc = "loop") ~> (run.pc = "done")

\* C23 witness: a generator has returned a maze of six cells or more after
\* six draws or more.
GeneratorsTerminateWitness ==
  /\ run.gen \in Generators /\ run.pc = "done" /\ run.result = "maze"
  /\ run.width * run.height >= 6 /\ run.nDraws >= 6

\* The cardinal neighbours of cell c that are visited
VisitedNeighbours(s, c) ==
  {d \in Cells(s.maze) : AreNeighbours(c, d) /\ s.isVisited[d]}

\* The iteration from s to t of Prim's has picked one cell of the frontier,
\* and connected it to nothing if it is the start cell, to exactly one
\* neighbour that was visited already if not.
PickedOnce(s, t) ==
  LET start == <<s.startPoint[1], s.startPoint[2]>>
  IN  \E cell \in s.pathSet :
        /\ TurnedVisited(s, t) = {cell}
        /\ cell \notin t.pathSet
        /\ cell = start => t.maze = s.maze
        /\ cell # start =>
             \E n \in VisitedNeighbours(s, cell) :
               /\ Links(s.maze) \cap {{cell, d} : d \in Cells(s.maze)} = {}
               /\ Links(t.maze) = Links(s.maze) \cup {{cell, n}}

\* C24: whenever Prim's is at the start of a loop iteration, every cell of
\* the frontier is unvisited and every frontier cell but the start cell has a
\* visited cardinal neighbour; and the iteration picks a cell that was never
\* picked, connects nothing if it is the start cell and connects it to
\* exactly one visited neighbour otherwise.
PrimsFrontier ==
  (run.gen = "Prims" /\ run.pc = "loop") =>
    /\ \A c \in run.pathSet : ~run.isVisited[c]
    /\ \A c \in run.pathSet \ {<<run.startPoint[1], run.startPoint[2]>>} :
         VisitedNeighbours(run, c) # {}
    /\ PrimsContinues(run) =>
         \A r1 \in Outputs(FirstModuli(run)) :
           \A r2 \in Outputs(SecondModuli(run, r1)) :
             \A o \in PrimsPlacings(run, r1) :
               PickedOnce(run, PrimsIteration(run, r1, r2, o))

\* C24 witness: an iteration of Prim's starts with three frontier cells or
\* more, one of them with two visited neighbours.
PrimsFrontierWitness ==
  /\ run.gen = "Prims" /\ run.pc = "loop"
  /\ Cardinality(run.pathSet) >= 3
  /\ \E c \in run.pathSet : Cardinality(VisitedNeighbours(run, c)) >= 2

\* The elements of seq other than the one at position k, in their order
AllBut(seq, k) == SubSeq(seq, 1, k - 1) \o SubSeq(seq, k + 1, Len(seq))

\* The iteration from s to t of the DFS generator, with the draw r, has
\* popped the top cell and left the stack under it as it was; if the cell has
\* unvisited neighbours, all are visited and connected to the cell in t and
\* are on the stack above what was under the cell, the chosen one on top.
ChosenOnTop(s, t, r) ==
  LET cell == s.pathStack[Len(s.pathStack)]
      under == SubSeq(s.pathStack, 1, Len(s.pathStack) - 1)
      unvisited == {c \in Cells(s.maze) : AreNeighbours(cell, c) /\ ~s.isVisited[c]}
      neighbours == DFSGetNeighbours(s, cell)
      chosen == neighbours[RandMod(r, Len(neighbours)) + 1]
  IN  /\ Range(neighbours) = unvisited
      /\ unvisited = {} => t.pathStack = under
      /\ unvisited # {} =>
           /\ \A n \in unvisited :
                t.isVisited[n] /\ n \in t.maze.conn[cell] /\ cell \in t.maze.conn[n]
           /\ t.pathStack =
                under \o AllBut(neighbours, RandMod(r, Len(neighbours)) + 1) \o <<chosen>>
           /\ t.pathStack[Len(t.pathStack)] = chosen

\* C25: an iteration of the DFS generator pops the top of the stack and
\* leaves the rest of the stack in place; when the popped cell has unvisited
\* neighbours it marks all of them visited, connects each to the popped cell
\* and pushes them, the chosen one last: the chosen neighbour is the next cell
\* popped, and the others lie under it, so each is popped only once all that
\* is pushed above it is popped.
DFSStackOrder ==
  (run.gen = "DFS" /\ run.pc = "loop" /\ DFSContinues(run)) =>
    \A r \in Outputs(FirstModuli(run)) : ChosenOnTop(run, DFSIteration(run, r), r)

\* C25 witness: an iteration starts with a cell on top of the stack that has
\* two unvisited neighbours or more, above a cell pushed as a non-chosen
\* neighbour.
DFSStackOrderWitness ==
  /\ run.gen = "DFS" /\ run.pc = "loop" /\ Len(run.pathStack) >= 2
  /\ Len(DFSGetNeighbours(run, run.pathStack[Len(run.pathStack)])) >= 2

\* The number of connections on the shortest maze path from the cells `seen`
\* (at k connections or fewer from the start) to the cell c; -1 if no path
\* joins them.
RECURSIVE PathLength(_, _, _, _)
PathLength(g, seen, c, k) ==
  IF c \in seen THEN k
  ELSE LET more == seen \cup UNION {Joined(g, d) : d \in seen}
       IN  IF more = seen THEN -1 ELSE PathLength(g, more, c, k + 1)

\* C26: in every maze DFS or Prim's returns, every cell is marked visited,
\* the start cell has rootDistance 0 and every other cell's rootDistance is
\* the number of connections on the maze path from the start cell to it,
\* one more than the rootDistance of the cell before it on that path.
RootDistanceIsPathLength ==
  (Returned(run, "DFS") \/ Returned(run, "Prims")) =>
    LET start == <<run.startPoint[1], run.startPoint[2]>>
    IN  /\ run.rootDistance[start] = 0
        /\ \A c \in Cells(run.maze) :
             /\ run.isVisited[c]
             /\ run.rootDistance[c] = PathLength(run.maze, {start}, c, 0)
             /\ c # start =>
                  \E d \in Joined(run.maze, c) :
                    /\ PathLength(run.maze, {start}, d, 0) + 1
                         = PathLength(run.maze, {start}, c, 0)
                    /\ run.rootDistance[c] = run.rootDistance[d] + 1

\* C26 witness: a returned maze of DFS or Prim's, started away from the
\* origin, with a cell four connections or more from the start cell and two
\* cells at the same distance.
RootDistanceIsPathLengthWitness ==
  /\ Returned(run, "DFS") \/ Returned(run, "Prims")
  /\ run.startPoint # <<0, 0>>
  /\ \E c \in Cells(run.maze) : run.rootDistance[c] >= 4
  /\ \E c \in Cells(run.maze) : \E d \in Cells(run.maze) :
       c # d /\ run.rootDistance[c] = run.rootDistance[d]

\* Cell (x, y) is connected to its east neighbour
EastConnected(g, x, y) == <<x + 1, y>> \in g.conn[<<x, y>>]

\* Cell (x, y) is connected to its north neighbour
NorthConnected(g, x, y) == <<x, y - 1>> \in g.conn[<<x, y>>]

\* The cells of row y joined to (x, y) by east connections alone: the run of
\* (x, y)
RunOf(g, x, y) ==
  {<<k, y>> : k \in {j \in 0..(Width(g) - 1) :
                       \A i \in (IF j < x THEN j ELSE x)..((IF j < x THEN x ELSE j) - 1) :
                         EastConnected(g, i, y)}}

\* C27: in a maze Sidewinder returns, every horizontally adjacent pair of
\* row 0 is connected, and in every row y > 0 the run of each cell has exactly
\* one cell connected to the row above; and at every cell of a row y > 0 the
\* loop reaches, the run set with that cell added (the set a cell is drawn
\* from) is the run of the cell so far: the cells of the row from the start
\* of the current run to the cell.
SidewinderRuns ==
  /\ Returned(run, "Sidewinder") =>
       /\ \A x \in 0..(run.width - 2) : EastConnected(run.maze, x, 0)
       /\ \A c \in Cells(run.maze) : \A d \in run.maze.conn[c] :
            c[2] = 0 => d[2] # c[2] - 1
       /\ \A c \in Cells(run.maze) :
            c[2] > 0 =>
              Cardinality({d \in RunOf(run.maze, c[1], c[2]) :
                             NorthConnected(run.maze, d[1], d[2])}) = 1
  /\ (run.gen = "Sidewinder" /\ run.pc = "loop" /\ ScanContinues(run)) =>
       /\ run.y = 0 => run.runSet = {}
       /\ run.y > 0 =>
            /\ <<run.x, run.y>> \notin run.runSet
            /\ run.runSet \cup {<<run.x, run.y>>}
                 = {c \in RunOf(run.maze, run.x, run.y) : c[1] <= run.x}
            /\ \A c \in run.runSet : ~NorthConnected(run.maze, c[1], c[2])

\* C27 witness: the loop is at the second cell of a run of a row y > 0, after
\* a run of that row was closed.
SidewinderRunsWitness ==
  /\ run.gen = "Sidewinder" /\ run.pc = "loop" /\ run.y > 0
  /\ Cardinality(run.runSet) = 1
  /\ \E x \in 0..(run.x - 1) : NorthConnected(run.maze, x, run.y)

\* The west and north neighbours cell c is connected to
WestNorth(g, c) == g.conn[c] \cap {<<c[1] - 1, c[2]>>, <<c[1], c[2] - 1>>}

\* C28: an iteration of Binary Tree makes no connection at the origin and
\* exactly one, to the west or north neighbour of the cell, at every other
\* cell; in the maze it returns every cell but the origin is connected to
\* exactly one of its west and north neighbours, all horizontally adjacent
\* cells of row 0 and all vertically adjacent cells of column 0 are
\* connected, and no cell has more than 3 connections.
BinaryTreeShape ==
  /\ (run.gen = "BinaryTree" /\ run.pc = "loop" /\ ScanContinues(run)) =>
       \A r \in Outputs(FirstModuli(run)) :
         LET cell == <<run.x, run.y>>
             next == BinaryTreeIteration(run, r)
         IN  /\ cell = <<0, 0>> => next.maze = run.maze
             /\ cell # <<0, 0>> =>
                  \E n \in {<<run.x - 1, run.y>>, <<run.x, run.y - 1>>} \cap Cells(run.maze) :
                    /\ {cell, n} \notin Links(run.maze)
                    /\ Links(next.maze) = Links(run.maze) \cup {{cell, n}}
  /\ Returned(run, "BinaryTree") =>
       /\ \A c \in Cells(run.maze) :
            /\ Cardinality(WestNorth(run.maze, c)) = IF c = <<0, 0>> THEN 0 ELSE 1
            /\ Cardinality(run.maze.conn[c]) <= 3
       /\ \A x \in 0..(run.width - 2) : EastConnected(run.maze, x, 0)
       /\ \A y \in 0..(run.height - 2) : <<0, y + 1>> \in run.maze.conn[<<0, y>>]

\* C28 witness: a returned Binary Tree maze of 3 x 3 cells with a cell of 3
\* connections and cells off the two sides connected north and west.
BinaryTreeShapeWitness ==
  /\ Returned(run, "BinaryTree") /\ run.width >= 3 /\ run.height >= 3
  /\ \E c \in Cells(run.maze) : Cardinality(run.maze.conn[c]) = 3
  /\ NorthConnected(run.maze, 1, 1) /\ EastConnected(run.maze, 1, 2)

\* The cells of the region of a call of Compute
RegionCells(call) ==
  {c \in (call.origin[1]..(call.origin[1] + call.width - 1))
           \X (call.origin[2]..(call.origin[2] + call.height - 1)) : TRUE}

\* The call of Compute that takes s to t stays inside its region: it adds no
\* connection; on a region of width or height below 2 it changes nothing and
\* calls nothing; otherwise it calls Compute on two regions of at least one
\* row and column each (wallIdx + 1 < size) that are disjoint and cover the
\* region, severs only pairs of cells of the region, and leaves a pair across
\* the wall between the two connected (the gap is within the wall).
StaysInRegion(s, t) ==
  LET n == Len(s.calls)
      call == s.calls[n]
      made == SubSeq(t.calls, n, Len(t.calls))
      severed == Links(s.maze) \ Links(t.maze)
  IN  /\ Links(t.maze) \subseteq Links(s.maze)
      /\ \A c \in Cells(s.maze) : t.maze.conn[c] \subseteq s.maze.conn[c]
      /\ SubSeq(t.calls, 1, n - 1) = SubSeq(s.calls, 1, n - 1)
      /\ (call.width < 2 \/ call.height < 2) =>
           t.maze = s.maze /\ made = <<>>
      /\ (call.width >= 2 /\ call.height >= 2) =>
           /\ Len(made) = 2
           /\ \A i \in 1..2 : made[i].width >= 1 /\ made[i].height >= 1
           /\ RegionCells(made[1]) \cap RegionCells(made[2]) = {}
           /\ RegionCells(made[1]) \cup RegionCells(made[2]) = RegionCells(call)
           /\ \A link \in severed : link \subseteq RegionCells(call)
           /\ \E a \in RegionCells(made[1]) : \E b \in RegionCells(made[2]) :
                AreNeighbours(a, b) /\ {a, b} \in Links(t.maze)

\* C29: every call of Compute of Recursive Division adds no connection,
\* leaves a region of width or height below 2 untouched, and otherwise cuts
\* with wallIdx + 1 below the size of the region and the gap within the wall,
\* severs only pairs of cells that both lie in its region, and recurses on two
\* disjoint regions that cover its region exactly.
DivisionStaysInRegion ==
  (run.gen = "Division" /\ run.pc = "loop" /\ DivisionContinues(run)) =>
    \A r1 \in Outputs(FirstModuli(run)) :
      \A r2 \in Outputs(SecondModuli(run, r1)) :
        \A r3 \in Outputs(ThirdModuli(run, r1)) :
      StaysInRegion(run, DivisionCompute(run, r1, r2, r3))

\* C29 witness: a call of Compute is pending on a region of at least 2 x 2
\* cells that is not the whole grid and does not start at the origin, with
\* another call pending.
DivisionStaysInRegionWitness ==
  /\ run.gen = "Division" /\ run.pc = "loop" /\ Len(run.calls) >= 2
  /\ LET call == run.calls[Len(run.calls)]
     IN  /\ call.width >= 2 /\ call.height >= 2
         /\ call.origin # <<0, 0>>
         /\ call.width * call.height < run.width * run.height

\* C30: at every step of every generator and in every maze returned, every
\* member of the connection set of a cell is a cell of the grid and a
\* cardinal neighbour of the cell (the coordinates differ by exactly 1 in
\* exactly one axis), so no cell is in its own connection set.
ConnectionsJoinNeighbours ==
  run.gen \in Generators =>
    \A c \in Cells(run.maze) : \A d \in run.maze.conn[c] :
      /\ d \in Cells(run.maze)
      /\ d # c
      /\ AreNeighbours(c, d)
      /\ d[1] \in 0..(run.width - 1) /\ d[2] \in 0..(run.height - 1)

\* C30 witness: a generator is in its loop on a grid of 3 x 3 cells whose
\* centre cell is connected to three cells or more.
ConnectionsJoinNeighboursWitness ==
  /\ run.gen \in Generators /\ run.pc = "loop"
  /\ run.width = 3 /\ run.height = 3 /\ run.nDraws >= 3
  /\ Cardinality(run.maze.conn[<<1, 1>>]) >= 3

====
